---------------------------- MODULE Spec2Model ----------------------------
(***************************************************************************)
(* Verification model of the llm_trader agent (src/src/agent.ts and the    *)
(* TradingService of the same repository).                                 *)
(*                                                                         *)
(* Several sub-machines share one module, each with its own specification:   *)
(*   SpecRetry    - withRetry, one loop iteration per step                 *)
(*   SpecThread   - loadThread / saveThread and the session around them    *)
(*   SpecDispatch - the tool handlers                                      *)
(*   SpecShort    - short_sell and cover_short on the three dispatch paths *)
(*   SpecPrice    - the price resolvers                                    *)
(*   SpecReport   - getPortfolio and calculateNetWorth                     *)
(*   SpecClock    - isMarketOpen and getNextMarketOpen                     *)
(*   SpecProcess  - credential validation, main, runContinuous, SIGINT     *)
(*   SpecRun      - the turns of one session's conversation                *)
(*   SpecProfile  - two agent processes, their profiles and thread files   *)
(* Money is counted in cents, time in milliseconds.                        *)
(***************************************************************************)
EXTENDS Integers, Sequences, FiniteSets, TLC

VARIABLES
    \* ---- withRetry (agent.ts:1450) ----
    wrPc,          \* "idle" | "loop" | "returned" | "thrown"
    retries,       \* parameter retries (maxAttempts)
    delay,         \* parameter delay (baseDelay), ms
    i,             \* loop index
    lastError,     \* let lastError
    thrown,        \* the error withRetry threw (NoError when none)
    returned,      \* the value withRetry returned ("none" when none)
    attempts,      \* history: one record per invocation of fn
    \* ---- thread store and session (agent.ts:845-896, 2203-2235) ----
    tPc,           \* "idle" | "loaded" | "ran" | "failed"
    threadFile,    \* results/<profile>/thread-<profile>.json
    fileByProgram, \* TRUE once saveThread has written threadFile
    quarantine,    \* the *.corrupted-<timestamp> files: set of [ts, data]
    thread,        \* the in-memory thread of the running session
    now,           \* Date.now(), advanced at every session start
    nextSeq,       \* serial number of the next item the conversation produces
    sessions,      \* sessions started so far
    loadLog,       \* what the last loadThread read, returned and quarantined
    saveLog,       \* what the last saveThread was given and whether it wrote
    \* ---- brokerage and tool dispatch (agent.ts:402-720, 1319-1448) ----
    account,          \* alpaca.getAccount(): buying_power in cents
    positions,        \* alpaca.getPositions(): ticker -> signed qty, 0 = not listed
    dispatchLog,      \* the last dispatch: path, tool call and outcome
    priceLog,         \* the last price resolution: resolver, inputs and result
    \* ---- portfolio reconciler (agent.ts:417-460, 722-746) ----
    reportLog,        \* the last getPortfolio / calculateNetWorth: answers and result
    \* ---- market clock (agent.ts:1482-1534) ----
    clockLog,         \* the instant and zone the clock was read in, and the answer
    \* ---- the process (agent.ts:159-199, 2203-2355) ----
    pPc,           \* "off" | "start" | "main" | "loop" | "session" | "sleeping" | "exited"
    mode,          \* "continuous" | "single" (--continuous)
    creds,         \* what the credential validations answer
    runZone,       \* time zones and TESTING_MODE of this run
    clock,         \* Date.now(), minutes
    wakeAt,        \* the instant the pending sleep() ends
    phase,         \* of the session: "none" | "loading" | "conversing" | "order" | "saving"
    validations,   \* calls of validateAllCredentials
    ever,          \* whether a thread was loaded, a conversation started, an order dispatched
    startLog,      \* the last session start: instant and isMarketOpen() read before it
    sleepLog,      \* why and when the pending sleep was entered
    exitLog,       \* process.exit: code, cause and the session phase it cut
    retryPending,  \* a session failed and none has been started since
    sessionsInProgress,  \* runTradingSession() calls that have not settled
    \* ---- the conversation of one session (agent.ts:2211-2222) ----
    runPc,         \* "idle" | "ready" | "running" | "completed" | "failed"
    turns,         \* turns of the current run() invocation
    runIndex,      \* i of withRetry: invocations of run() that failed
    sessionTurns,  \* turns of the session, all invocations together
    \* ---- two agent processes and their profiles (agent.ts:11-43) ----
    agentEnv,      \* process -> its MODEL and PROFILE_NAME settings
    agentPc,       \* process -> "off" | "started" | "loaded" | "saved"
    agentProfile,  \* process -> the module constant profileName
    fileAccess,    \* reads and writes of thread files so far
    \* ---- the native Gemini session (agent.ts:1675-2200) ----
    gPc,           \* "idle" | "start" | "followUp" | "done"
    gPath,         \* branch taken: "none" | "calls" | "text" | "plain" | "failed"
    gIssued,       \* tool calls the program has got from the model
    gDispatched,   \* tool calls it has executed
    gAnswered,     \* tool calls whose results went back to the model
    gParse         \* the last parseTextForToolCalls: its text and its result

retryVars == <<wrPc, retries, delay, i, lastError, thrown, returned, attempts>>

threadVars == <<tPc, threadFile, fileByProgram, quarantine, thread, now,
                nextSeq, sessions, loadLog, saveLog>>

dispatchVars == <<account, positions, dispatchLog, priceLog>>

reportVars == <<reportLog>>

clockVars == <<clockLog>>

procVars == <<pPc, mode, creds, runZone, clock, wakeAt, phase, validations, ever,
              startLog, sleepLog, exitLog, retryPending,
              sessionsInProgress>>

runVars == <<runPc, turns, runIndex, sessionTurns>>

profileVars == <<agentEnv, agentPc, agentProfile, fileAccess>>

nativeVars == <<gPc, gPath, gIssued, gDispatched, gAnswered, gParse>>

vars == <<retryVars, threadVars, dispatchVars, reportVars, clockVars, procVars,
          runVars, profileVars, nativeVars>>

(***************************************************************************)
(* Small arithmetic helpers                                                *)
(***************************************************************************)
RECURSIVE Pow2(_)
Pow2(n) == IF n = 0 THEN 1 ELSE 2 * Pow2(n - 1)

Min(a, b) == IF a < b THEN a ELSE b

(***************************************************************************)
(* Thread store  (src/src/agent.ts:845-896)                                *)
(***************************************************************************)
maxItems == 40            \* const maxItems = 40
LoadCeiling == 50         \* if (fullThread.length > 50)
MaxSessions == 4          \* sessions explored per behaviour

StaleCallId == "call_en9S0pLVBoYjEcU4hnyuVl5X"
CallId(n) == "call_" \o ToString(n)

\* an item's provider id: "fc_<n>" on a function call of a reasoning model,
\* "rs_<n>" on a reasoning item, none on the others
NoId == [prefix |-> "", n |-> 0]
ItemId(prefix, n) == [prefix |-> prefix, n |-> n]

\* ThreadItem: a role-tagged message, a function call, a function result or a
\* reasoning item.  seq is the item's serial number (its identity); messages
\* carry no callId.
Message(role, seq) ==
    [type |-> "message", role |-> role, callId |-> "", seq |-> seq, id |-> NoId]
FunctionCall(callId, seq) ==
    [type |-> "function_call", role |-> "", callId |-> callId, seq |-> seq,
     id |-> NoId]
FunctionCallResult(callId, seq) ==
    [type |-> "function_call_result", role |-> "", callId |-> callId,
     seq |-> seq, id |-> NoId]
ReasonedCall(callId, seq) ==
    [FunctionCall(callId, seq) EXCEPT !.id = ItemId("fc", seq)]
Reasoning(n, seq) ==
    [type |-> "reasoning", role |-> "", callId |-> "", seq |-> seq,
     id |-> ItemId("rs", n)]

\* The persisted file: absent, not parsable as a JSON array, or a JSON array.
AbsentFile  == [kind |-> "absent",  items |-> <<>>]
GarbageFile == [kind |-> "garbage", items |-> <<>>]
UnreadableFile == [kind |-> "unreadable", items |-> <<>>]
JsonFile(items) == [kind |-> "json", items |-> items]

SliceLast_First(t, n) ==
    IF Len(t) <= n THEN t ELSE SubSeq(t, 1, n)

\* thread.slice(-maxItems)
SliceLast(t, n) ==
    IF Len(t) <= n THEN t ELSE SubSeq(t, Len(t) - n + 1, Len(t))

\* const trimmedThread = thread.slice(-maxItems)
TrimmedThread(t) == SliceLast(t, maxItems)

\* item.type === 'function_call_result' &&
\*   !fullThread.find(call => call.callId === item.callId && call.type === 'function_call')
IsOrphanResult(fullThread, item) ==
    /\ item.type = "function_call_result"
    /\ ~\E k \in 1..Len(fullThread) :
          /\ fullThread[k].callId = item.callId
          /\ fullThread[k].type = "function_call"

HasCorruption_NoOrphanCheck(fullThread) ==
    \E k \in 1..Len(fullThread) : fullThread[k].callId = StaleCallId

\* const hasCorruption = fullThread.some(item => item.callId === '...' || orphan)
HasCorruption(fullThread) ==
    \E k \in 1..Len(fullThread) :
        \/ fullThread[k].callId = StaleCallId
        \/ IsOrphanResult(fullThread, fullThread[k])

\* The outcome of loadThread on `file`: the thread it returns and whether it
\* calls writeFile for a quarantine copy.
LoadOutcome(file) ==
    IF file.kind = "absent" THEN [result |-> <<>>, quarantines |-> FALSE]
    ELSE IF file.kind = "unreadable" THEN [result |-> <<>>, quarantines |-> FALSE]
    ELSE IF file.kind = "garbage" THEN [result |-> <<>>, quarantines |-> FALSE]
    ELSE IF HasCorruption(file.items) THEN [result |-> <<>>, quarantines |-> TRUE]
    ELSE IF Len(file.items) > LoadCeiling THEN [result |-> <<>>, quarantines |-> FALSE]
    ELSE [result |-> file.items, quarantines |-> FALSE]

\* What one conversation appends to the thread it was given (result.history):
\* the session prompt, k function call / result pairs, the final answer.
Conversation(start, k) ==
    [p \in 1..(2 * k + 2) |->
        IF p = 1 THEN Message("user", start)
        ELSE IF p = 2 * k + 2 THEN Message("assistant", start + p - 1)
        ELSE IF p % 2 = 0 THEN FunctionCall(CallId(start + p - 1), start + p - 1)
        ELSE FunctionCallResult(CallId(start + p - 2), start + p - 1)]

ToolCallCounts == {0, 2, 9}

\* Thread files found on disk at start-up (left by earlier runs or by hand).
ValidThread(n) ==
    [p \in 1..n |->
        IF p % 3 = 1 THEN Message("user", p)
        ELSE IF p % 3 = 2 THEN FunctionCall(CallId(p), p)
        ELSE FunctionCallResult(CallId(p - 1), p)]

OrphanThread ==
    <<Message("user", 1), FunctionCallResult(CallId(9), 2), Message("assistant", 3)>>

StaleIdThread ==
    <<Message("user", 1), FunctionCall(StaleCallId, 2),
      FunctionCallResult(StaleCallId, 3), Message("assistant", 4)>>

\* a thread of a reasoning model: each function call fc_<n> is preceded by its
\* reasoning item rs_<n>
ReasonedThread ==
    <<Message("user", 1), Reasoning(3, 2), ReasonedCall(CallId(3), 3),
      FunctionCallResult(CallId(3), 4), Message("assistant", 5)>>

\* the same thread with the reasoning item lost
UnreasonedThread ==
    <<Message("user", 1), ReasonedCall(CallId(3), 3),
      FunctionCallResult(CallId(3), 4), Message("assistant", 5)>>

InitialFiles ==
    { AbsentFile, GarbageFile, UnreadableFile, JsonFile(<<>>), JsonFile(ValidThread(3)),
      JsonFile(ReasonedThread), JsonFile(UnreasonedThread),
      JsonFile(ValidThread(43)), JsonFile(ValidThread(LoadCeiling)),
      JsonFile(ValidThread(LoadCeiling + 1)),
      JsonFile(OrphanThread), JsonFile(StaleIdThread) }

NoLoad == [raw |-> AbsentFile, result |-> <<>>, quarantined |-> FALSE,
           wrote |-> FALSE, ts |-> 0]
NoSave == [given |-> <<>>, wrote |-> FALSE, before |-> AbsentFile,
           threw |-> FALSE]

ThreadIdle ==
    /\ tPc = "idle"
    /\ threadFile = AbsentFile
    /\ fileByProgram = FALSE
    /\ quarantine = {}
    /\ thread = <<>>
    /\ now = 0
    /\ nextSeq = 1
    /\ sessions = 0
    /\ loadLog = NoLoad
    /\ saveLog = NoSave

\* const thread = await loadThread();   (writeOk: the quarantine writeFile succeeds)
LoadThread(writeOk) ==
    /\ tPc = "idle"
    /\ sessions < MaxSessions
    /\ sessions' = sessions + 1
    /\ now' = now + 1
    /\ LET out == LoadOutcome(threadFile)
       IN  /\ thread' = out.result
           /\ quarantine' =
                 IF out.quarantines /\ writeOk
                 THEN quarantine \cup {[ts |-> now', data |-> threadFile]}
                 ELSE quarantine
           /\ loadLog' = [raw |-> threadFile, result |-> out.result,
                          quarantined |-> out.quarantines,
                          wrote |-> out.quarantines /\ writeOk, ts |-> now']
    /\ tPc' = "loaded"
    /\ UNCHANGED <<threadFile, fileByProgram, nextSeq, saveLog>>
    /\ UNCHANGED <<nativeVars, retryVars, dispatchVars, reportVars, clockVars, procVars, runVars, profileVars>>

\* const result = await withRetry(() => run(agent, thread.concat(prompt)))
RunConversation(k) ==
    /\ tPc = "loaded"
    /\ thread' = thread \o Conversation(nextSeq, k)
    /\ nextSeq' = nextSeq + 2 * k + 2
    /\ tPc' = "ran"
    /\ UNCHANGED <<threadFile, fileByProgram, quarantine, now, sessions,
                   loadLog, saveLog>>
    /\ UNCHANGED <<nativeVars, retryVars, dispatchVars, reportVars, clockVars, procVars, runVars, profileVars>>

\* run(...) rejects: catch (error) { log(...); throw error; }
ConversationFails ==
    /\ tPc = "loaded"
    /\ tPc' = "failed"
    /\ UNCHANGED <<threadFile, fileByProgram, quarantine, thread, now, nextSeq,
                   sessions, loadLog, saveLog>>
    /\ UNCHANGED <<nativeVars, retryVars, dispatchVars, reportVars, clockVars, procVars, runVars, profileVars>>

SaveThreadThrows_Rethrown(writeOk) == ~writeOk

\* saveThread: catch (error) { log(...) }  -- a failed writeFile is logged,
\* nothing is thrown
SaveThreadThrows(writeOk) == FALSE

\* await saveThread(result.history)   (writeOk: writeFile succeeds)
SaveThread(writeOk) ==
    /\ tPc = "ran"
    /\ saveLog' = [given |-> thread, wrote |-> writeOk, before |-> threadFile,
                   threw |-> SaveThreadThrows(writeOk)]
    /\ IF writeOk
       THEN /\ threadFile' = JsonFile(TrimmedThread(thread))
            /\ fileByProgram' = TRUE
       ELSE UNCHANGED <<threadFile, fileByProgram>>
    /\ tPc' = IF SaveThreadThrows(writeOk) THEN "failed" ELSE "idle"
    /\ UNCHANGED <<quarantine, thread, now, nextSeq, sessions, loadLog>>
    /\ UNCHANGED <<nativeVars, retryVars, dispatchVars, reportVars, clockVars, procVars, runVars, profileVars>>

\* the scheduler (or the next process start) begins another session
SessionOver ==
    /\ tPc = "failed"
    /\ tPc' = "idle"
    /\ UNCHANGED <<threadFile, fileByProgram, quarantine, thread, now, nextSeq,
                   sessions, loadLog, saveLog>>
    /\ UNCHANGED <<nativeVars, retryVars, dispatchVars, reportVars, clockVars, procVars, runVars, profileVars>>

(***************************************************************************)
(* The older session runner  (src/unnamed/part_008:2466-2915)              *)
(***************************************************************************)
\* functionCalls.some(fc => fc.id starts with 'fc_' and no reasoning item has
\* the id with 'fc_' replaced by 'rs_')
hasReasoningMismatch(fullThread) ==
    \E k \in 1..Len(fullThread) :
        /\ fullThread[k].type = "function_call"
        /\ fullThread[k].id.prefix = "fc"
        /\ ~\E j \in 1..Len(fullThread) :
              /\ fullThread[j].type = "reasoning"
              /\ fullThread[j].id = ItemId("rs", fullThread[k].id.n)

\* the older loadThread: the reasoning check comes first
LegacyLoadOutcome(file) ==
    IF file.kind = "json" /\ hasReasoningMismatch(file.items)
    THEN [result |-> <<>>, quarantines |-> TRUE]
    ELSE LoadOutcome(file)

LegacyLoadThread(writeOk) ==
    /\ tPc = "idle"
    /\ sessions < MaxSessions
    /\ sessions' = sessions + 1
    /\ now' = now + 1
    /\ LET out == LegacyLoadOutcome(threadFile)
       IN  /\ thread' = out.result
           /\ quarantine' =
                 IF out.quarantines /\ writeOk
                 THEN quarantine \cup {[ts |-> now', data |-> threadFile]}
                 ELSE quarantine
           /\ loadLog' = [raw |-> threadFile, result |-> out.result,
                          quarantined |-> out.quarantines,
                          wrote |-> out.quarantines /\ writeOk, ts |-> now']
    /\ tPc' = "loaded"
    /\ UNCHANGED <<threadFile, fileByProgram, nextSeq, saveLog>>
    /\ UNCHANGED <<nativeVars, retryVars, dispatchVars, reportVars, clockVars, procVars, runVars, profileVars>>

\* the catch of the older runner: on the provider's reasoning-mismatch error
\* it reads the thread file, writes a backup copy and then overwrites the
\* thread file with []; a failure of any of the three ends the recovery
RecoveryClears(mismatch, file, backupOk, clearOk) ==
    mismatch /\ file.kind \in {"json", "garbage"} /\ backupOk /\ clearOk

\* run() rejects, and so does the run() of the recovery if one is made:
\* log, throw error
LegacySessionFails(mismatch, backupOk, clearOk) ==
    /\ tPc = "loaded"
    /\ IF mismatch /\ threadFile.kind \in {"json", "garbage"} /\ backupOk
       THEN /\ now' = now + 1
            /\ quarantine' = quarantine \cup {[ts |-> now', data |-> threadFile]}
       ELSE UNCHANGED <<now, quarantine>>
    /\ IF RecoveryClears(mismatch, threadFile, backupOk, clearOk)
       THEN /\ threadFile' = JsonFile(<<>>)
            /\ fileByProgram' = TRUE
       ELSE UNCHANGED <<threadFile, fileByProgram>>
    /\ tPc' = "failed"
    /\ UNCHANGED <<thread, nextSeq, sessions, loadLog, saveLog>>
    /\ UNCHANGED <<nativeVars, retryVars, dispatchVars, reportVars, clockVars, procVars, runVars, profileVars>>

\* run() rejects with the reasoning-mismatch error, the thread file is backed
\* up and cleared, and the run() of the recovery resolves: its history is
\* saved and the session returns
LegacyRecovers(k, writeOk) ==
    /\ tPc = "loaded"
    /\ threadFile.kind \in {"json", "garbage"}
    /\ now' = now + 1
    /\ quarantine' = quarantine \cup {[ts |-> now', data |-> threadFile]}
    /\ thread' = Conversation(nextSeq, k)
    /\ nextSeq' = nextSeq + 2 * k + 2
    /\ saveLog' = [given |-> thread', wrote |-> writeOk,
                   before |-> JsonFile(<<>>), threw |-> SaveThreadThrows(writeOk)]
    /\ threadFile' = IF writeOk THEN JsonFile(TrimmedThread(thread'))
                     ELSE JsonFile(<<>>)
    /\ fileByProgram' = TRUE
    /\ tPc' = "idle"
    /\ UNCHANGED <<sessions, loadLog>>
    /\ UNCHANGED <<nativeVars, retryVars, dispatchVars, reportVars, clockVars, procVars, runVars, profileVars>>

(***************************************************************************)
(* withRetry  (src/src/agent.ts:1450-1479)                                 *)
(***************************************************************************)
MaxAttempts == 4          \* largest `retries` argument explored
DefaultDelay == 2000      \* delay = 2000
Delays == {1, DefaultDelay}
Values == {"v1", "v2"}    \* what fn may resolve to

\* An error value: a structured status (0 = no status property) and a message.
\* A message either is absent, is plain text, or contains "<n> status code".
NoMessage    == [kind |-> "none",  n |-> 0]
PlainMessage == [kind |-> "plain", n |-> 0]
CodeMessage(n) == [kind |-> "code", n |-> n]

Err(status, message) == [status |-> status, message |-> message]
NoError == Err(0, NoMessage)

Errors ==
    { Err(429, PlainMessage), Err(500, PlainMessage), Err(599, NoMessage),
      Err(0, CodeMessage(503)),          \* "503 status code", no status field
      Err(0, CodeMessage(404)),          \* "404 status code"
      Err(404, CodeMessage(500)),        \* structured status wins over the message
      Err(400, PlainMessage), Err(600, PlainMessage), Err(499, NoMessage),
      Err(0, PlainMessage),              \* validation / configuration error
      Err(0, CodeMessage(50)) }          \* "50 status code": fewer than 3 digits

\* error.message.match(/(\d{3}) status code/): the three digits that end the
\* number in front of " status code"; 0 stands for "no match".
MatchStatusCode(message) ==
    IF message.kind = "code" /\ message.n >= 100 THEN message.n % 1000 ELSE 0

\* let status = error.status; if (!status && error.message) { ...parseInt... }
ErrorStatus(error) ==
    IF error.status # 0 THEN error.status
    ELSE IF error.message.kind # "none" THEN MatchStatusCode(error.message)
    ELSE 0

IsRetryableStatus_Off(error) ==
    LET status == ErrorStatus(error)
    IN  status = 429 \/ (status > 500 /\ status < 600)

\* if (status === 429 || (status >= 500 && status < 600))
IsRetryableStatus(error) ==
    LET status == ErrorStatus(error)
    IN  status = 429 \/ (status >= 500 /\ status < 600)

Jitters == {0, 999}       \* Math.random() * 1000, two samples of [0, 1000)

WaitTime_Linear(d, k, jitter) == d * (k + 1) + jitter

\* const waitTime = delay * Math.pow(2, i) + Math.random() * 1000
WaitTime(d, k, jitter) == d * Pow2(k) + jitter

LoopContinues_OffByOne(k, r) == k <= r

\* for (let i = 0; i < retries; i++)
LoopContinues(k, r) == k < r

Attempt(ok, value, error, slept, wait) ==
    [ok |-> ok, value |-> value, error |-> error, slept |-> slept, wait |-> wait]

RetryIdle ==
    /\ wrPc = "idle"
    /\ retries = 0
    /\ delay = 0
    /\ i = 0
    /\ lastError = NoError
    /\ thrown = NoError
    /\ returned = "none"
    /\ attempts = <<>>

\* a caller enters withRetry(fn, retries, delay)
WithRetryCall(r, d) ==
    /\ wrPc \in {"idle", "returned", "thrown"}
    /\ wrPc' = "loop"
    /\ retries' = r
    /\ delay' = d
    /\ i' = 0
    /\ lastError' = NoError
    /\ thrown' = NoError
    /\ returned' = "none"
    /\ attempts' = <<>>
    /\ UNCHANGED <<nativeVars, threadVars, dispatchVars, reportVars, clockVars, procVars, runVars, profileVars>>

\* try { return await fn(); }  -- fn resolves
WithRetryInvokeOk(value) ==
    /\ wrPc = "loop"
    /\ LoopContinues(i, retries)
    /\ attempts' = Append(attempts, Attempt(TRUE, value, NoError, FALSE, 0))
    /\ wrPc' = "returned"
    /\ returned' = value
    /\ UNCHANGED <<retries, delay, i, lastError, thrown>>
    /\ UNCHANGED <<nativeVars, threadVars, dispatchVars, reportVars, clockVars, procVars, runVars, profileVars>>

\* catch (error) { lastError = error; ... }  -- fn rejects with `error`
WithRetryInvokeFail(error, jitter) ==
    /\ wrPc = "loop"
    /\ LoopContinues(i, retries)
    /\ lastError' = error
    /\ IF IsRetryableStatus(error)
       THEN /\ attempts' = Append(attempts,
                   Attempt(FALSE, "none", error, TRUE, WaitTime(delay, i, jitter)))
            /\ i' = i + 1
            /\ UNCHANGED <<wrPc, thrown>>
       ELSE /\ attempts' = Append(attempts, Attempt(FALSE, "none", error, FALSE, 0))
            /\ wrPc' = "thrown"
            /\ thrown' = error
            /\ UNCHANGED i
    /\ UNCHANGED <<retries, delay, returned>>
    /\ UNCHANGED <<nativeVars, threadVars, dispatchVars, reportVars, clockVars, procVars, runVars, profileVars>>

\* the for loop ran out: throw lastError
WithRetryExhausted ==
    /\ wrPc = "loop"
    /\ ~LoopContinues(i, retries)
    /\ wrPc' = "thrown"
    /\ thrown' = lastError
    /\ UNCHANGED <<retries, delay, i, lastError, returned, attempts>>
    /\ UNCHANGED <<nativeVars, threadVars, dispatchVars, reportVars, clockVars, procVars, runVars, profileVars>>

(***************************************************************************)
(* withRetry of the error handler  (src/src/error-handler.ts:226-256)      *)
(* It runs on the variables of withRetry above: retries is maxRetries, i   *)
(* is attempt.                                                             *)
(***************************************************************************)
DefaultMaxRetries == 3    \* maxRetries: number = 3
EhDefaultDelay == 1000    \* delay: number = 1000
EhDelays == {1, EhDefaultDelay}

\* throw new Error('This should never be reached')
NeverReachedError == Err(0, [kind |-> "never", n |-> 0])

EhAttempt(ok, value, error, handled, slept, wait) ==
    [ok |-> ok, value |-> value, error |-> error, handled |-> handled,
     slept |-> slept, wait |-> wait]

EhWaitTime_FromZero(d, attempt) == d * Pow2(attempt)

\* const waitTime = delay * Math.pow(2, attempt - 1)
EhWaitTime(d, attempt) == d * Pow2(attempt - 1)

\* const isLastAttempt = attempt === maxRetries
isLastAttempt(attempt, maxRetries) == attempt = maxRetries

\* a caller enters withRetry(operation, maxRetries, delay): attempt = 1
EhWithRetryCall(m, d) ==
    /\ wrPc \in {"idle", "returned", "thrown"}
    /\ wrPc' = "loop"
    /\ retries' = m
    /\ delay' = d
    /\ i' = 1
    /\ lastError' = NoError
    /\ thrown' = NoError
    /\ returned' = "none"
    /\ attempts' = <<>>
    /\ UNCHANGED <<nativeVars, threadVars, dispatchVars, reportVars, clockVars, procVars, runVars, profileVars>>

\* try { return await operation(); }  -- operation resolves
EhOperationOk(value) ==
    /\ wrPc = "loop"
    /\ i <= retries
    /\ attempts' = Append(attempts, EhAttempt(TRUE, value, NoError, 0, FALSE, 0))
    /\ wrPc' = "returned"
    /\ returned' = value
    /\ UNCHANGED <<retries, delay, i, lastError, thrown>>
    /\ UNCHANGED <<nativeVars, threadVars, dispatchVars, reportVars, clockVars, procVars, runVars, profileVars>>

\* catch (error): handleError, then throw on the last attempt, else wait
EhOperationFail(error) ==
    /\ wrPc = "loop"
    /\ i <= retries
    /\ lastError' = error
    /\ IF isLastAttempt(i, retries)
       THEN /\ attempts' = Append(attempts,
                   EhAttempt(FALSE, "none", error, 1, FALSE, 0))
            /\ wrPc' = "thrown"
            /\ thrown' = error
            /\ UNCHANGED i
       ELSE /\ attempts' = Append(attempts,
                   EhAttempt(FALSE, "none", error, 1, TRUE, EhWaitTime(delay, i)))
            /\ i' = i + 1
            /\ UNCHANGED <<wrPc, thrown>>
    /\ UNCHANGED <<retries, delay, returned>>
    /\ UNCHANGED <<nativeVars, threadVars, dispatchVars, reportVars, clockVars, procVars, runVars, profileVars>>

\* the for loop is left without a return or a throw (maxRetries < 1)
EhNeverReached ==
    /\ wrPc = "loop"
    /\ ~(i <= retries)
    /\ wrPc' = "thrown"
    /\ thrown' = NeverReachedError
    /\ UNCHANGED <<retries, delay, i, lastError, returned, attempts>>
    /\ UNCHANGED <<nativeVars, threadVars, dispatchVars, reportVars, clockVars, procVars, runVars, profileVars>>

(***************************************************************************)
(* Brokerage, price sources and JavaScript numbers                         *)
(***************************************************************************)
\* A JavaScript number that may be NaN / undefined.
Num(v) == [nan |-> FALSE, v |-> v]
NaN == [nan |-> TRUE, v |-> 0]

\* a * b
Mul(a, b) == IF a.nan \/ b.nan THEN NaN ELSE Num(a.v * b.v)

\* a < b  (false as soon as one side is NaN)
Lt(a, b) == ~a.nan /\ ~b.nan /\ a.v < b.v

\* a || b
JsOr(a, b) == IF a.nan \/ a.v = 0 THEN b ELSE a

\* alpaca.getLatestQuote(ticker): rejects, resolves to nothing, or to a quote
ThrowQuote == [kind |-> "throw", BidPrice |-> 0, AskPrice |-> 0]
NullQuote  == [kind |-> "null",  BidPrice |-> 0, AskPrice |-> 0]
Quote(bid, ask) == [kind |-> "quote", BidPrice |-> bid, AskPrice |-> ask]

Quotes == { ThrowQuote, NullQuote, Quote(0, 20000),
            Quote(19999, 20001), Quote(20000, 20003) }

\* fetch(yahoo chart): rejects, answers !ok, or answers regularMarketPrice
\* (0 stands for a missing or non-positive price)
ThrowYahoo == [kind |-> "throw", price |-> 0]
NotOkYahoo == [kind |-> "notok", price |-> 0]
Yahoo(price) == [kind |-> "ok", price |-> price]

YahooAnswers == { ThrowYahoo, NotOkYahoo, Yahoo(0), Yahoo(19950) }

\* Math.random(), in thousandths
RandomSamples == {0, 999}

\* Math.round(((bid + ask) / 2) * 100) / 100 with bid and ask in cents
MidPrice(bid, ask) == (bid + ask + 1) \div 2

PriceResult(ok, price, source, calls) ==
    [ok |-> ok, price |-> price, source |-> source, calls |-> calls]

\* agent.ts getStockPrice: the brokerage quote or an exception
getStockPrice(quote) ==
    IF quote.kind = "quote" /\ quote.BidPrice # 0 /\ quote.AskPrice # 0
    THEN PriceResult(TRUE, MidPrice(quote.BidPrice, quote.AskPrice), "alpaca",
                     <<"getLatestQuote">>)
    ELSE PriceResult(FALSE, 0, "none", <<"getLatestQuote">>)

\* const mockPrices = { 'AAPL': 224.50, ..., 'NIO': 4.25, ... }
MockPriceTickers == {"AAPL", "NIO"}
mockPrices == [t \in MockPriceTickers |-> IF t = "AAPL" THEN 22450 ELSE 425]

\* ticker.toUpperCase()
ToUpperCase(ticker) == IF ticker = "aapl" THEN "AAPL" ELSE ticker

\* mockPrices[ticker.toUpperCase()] || (50 + Math.random() * 200), rounded
FallbackPrice(ticker, rnd) ==
    IF ToUpperCase(ticker) \in MockPriceTickers
    THEN mockPrices[ToUpperCase(ticker)]
    ELSE 5000 + (rnd * 20000) \div 1000

YahooUsable(yahoo) == yahoo.kind = "ok" /\ yahoo.price > 0

\* TradingService.getStockPrice: brokerage quote, then Yahoo, then a synthetic
\* price logged with source 'fallback'
TradingService_getStockPrice(ticker, quote, yahoo, rnd) ==
    IF quote.kind = "quote" /\ quote.BidPrice # 0 /\ quote.AskPrice # 0
    THEN PriceResult(TRUE, MidPrice(quote.BidPrice, quote.AskPrice), "alpaca",
                     <<"getLatestQuote">>)
    ELSE IF YahooUsable(yahoo)
    THEN PriceResult(TRUE, yahoo.price, "yahoo", <<"getLatestQuote", "yahoo">>)
    ELSE PriceResult(TRUE, FallbackPrice(ticker, rnd), "fallback",
                     <<"getLatestQuote", "yahoo">>)

\* the earlier agent's getStockPrice: brokerage quote, then Yahoo, then throw
Legacy_getStockPrice(quote, yahoo) ==
    IF quote.kind = "quote" /\ quote.BidPrice # 0 /\ quote.AskPrice # 0
    THEN PriceResult(TRUE, MidPrice(quote.BidPrice, quote.AskPrice), "alpaca",
                     <<"getLatestQuote">>)
    ELSE IF YahooUsable(yahoo)
    THEN PriceResult(TRUE, yahoo.price, "yahoo", <<"getLatestQuote", "yahoo">>)
    ELSE PriceResult(FALSE, 0, "none", <<"getLatestQuote", "yahoo">>)

(***************************************************************************)
(* Tool handlers                                                           *)
(***************************************************************************)
MinShortEquity == 4000000     \* if (accountEquity < 40000), in cents

NoOrder == [symbol |-> "", qty |-> NaN, side |-> "none",
            type |-> "", time_in_force |-> ""]
MarketOrder(symbol, qty, side) ==
    [symbol |-> symbol, qty |-> qty, side |-> side,
     type |-> "market", time_in_force |-> "gtc"]

NothingSeen == [buying_power |-> NaN, qty |-> NaN, equity |-> NaN,
                source |-> "none"]

\* What a handler did: how it ended ("string" | "number" | "throw"), which
\* message it produced, the remote calls it made in order, the price it
\* resolved, the account / position values it fetched, the number it reports
\* and the order it handed to createOrder.
Outcome(kind, text, calls, price, seen, reported, order) ==
    [kind |-> kind, text |-> text, calls |-> calls, price |-> price,
     seen |-> seen, reported |-> reported, order |-> order]

\* the environment of one dispatch: what each remote call answers
Env(acctOk, posOk, quote, yahoo, rnd, orderOk) ==
    [acctOk |-> acctOk, posOk |-> posOk, quote |-> quote, yahoo |-> yahoo,
     rnd |-> rnd, orderOk |-> orderOk]

\* !(parseFloat(account.buying_power) < orderValue)
Sufficient(bp, orderValue) == ~Lt(bp, orderValue)

\* the body shared by buyTool.execute, executeToolCall "buy" and
\* TradingService.buyStock once shares and the price resolver are fixed
BuyOrder(ticker, shares, bp, price, env) ==
    IF ~env.acctOk
    THEN Outcome("string", "failed_buy", <<"getAccount">>, NaN, NothingSeen,
                 NaN, NoOrder)
    ELSE LET seen == [NothingSeen EXCEPT !.buying_power = Num(bp)]
             priced == [seen EXCEPT !.source = price.source]
             calls == <<"getAccount">> \o price.calls
         IN  IF ~price.ok
             THEN Outcome("string", "failed_buy", calls, NaN, priced, NaN, NoOrder)
             ELSE IF ~Sufficient(Num(bp), Mul(shares, Num(price.price)))
             THEN Outcome("string", "not_enough_buying_power", calls,
                          Num(price.price), priced, Num(bp), NoOrder)
             ELSE Outcome("string",
                          IF env.orderOk THEN "submitted_buy" ELSE "failed_buy",
                          Append(calls, "createOrder"), Num(price.price), priced,
                          NaN, MarketOrder(ticker, shares, "buy"))

\* !(!position || parseFloat(position.qty) < shares); a position the
\* brokerage does not list is qty 0
Holds(qty, shares) == qty # 0 /\ ~Lt(Num(qty), shares)

\* the body shared by sellTool.execute, executeToolCall "sell" and
\* TradingService.sellStock; `price` is resolved only after the check passed
SellOrder(ticker, shares, qty, price, env) ==
    IF ~env.posOk
    THEN Outcome("string", "failed_sell", <<"getPositions">>, NaN, NothingSeen,
                 NaN, NoOrder)
    ELSE LET seen == [NothingSeen EXCEPT !.qty = Num(qty)]
             priced == [seen EXCEPT !.source = price.source]
         IN  IF ~Holds(qty, shares)
             THEN Outcome("string", "not_enough_shares", <<"getPositions">>,
                          NaN, seen, Num(qty), NoOrder)
             ELSE IF ~price.ok
             THEN Outcome("string", "failed_sell",
                          <<"getPositions">> \o price.calls, NaN, priced, NaN,
                          NoOrder)
             ELSE Outcome("string",
                          IF env.orderOk THEN "submitted_sell" ELSE "failed_sell",
                          <<"getPositions">> \o price.calls \o <<"createOrder">>,
                          Num(price.price), priced, NaN,
                          MarketOrder(ticker, shares, "sell"))

\* the body shared by shortSellTool.execute and the native dispatcher's
\* "short_sell": equity and buying power of the account just fetched
ShortSellOrder(ticker, shares, equity, bp, price, env) ==
    IF ~env.acctOk
    THEN Outcome("string", "failed_short_sell", <<"getAccount">>, NaN,
                 NothingSeen, NaN, NoOrder)
    ELSE LET seen == [NothingSeen EXCEPT !.buying_power = Num(bp),
                                         !.equity = Num(equity)]
             priced == [seen EXCEPT !.source = price.source]
             calls == <<"getAccount">> \o price.calls
         IN  IF equity < MinShortEquity
             THEN Outcome("string", "equity_below_minimum", <<"getAccount">>,
                          NaN, seen, Num(equity), NoOrder)
             ELSE IF ~price.ok
             THEN Outcome("string", "failed_short_sell", calls, NaN, priced, NaN,
                          NoOrder)
             ELSE IF Lt(Num(2 * bp), Mul(shares, Num(price.price)))
             THEN \* buyingPower < orderValue * 0.5
                  Outcome("string", "insufficient_buying_power", calls,
                          Num(price.price), priced, Num(bp), NoOrder)
             ELSE Outcome("string",
                          IF env.orderOk THEN "submitted_short_sell"
                          ELSE "failed_short_sell",
                          Append(calls, "createOrder"), Num(price.price), priced,
                          NaN, MarketOrder(ticker, shares, "sell"))

\* the body shared by coverShortTool.execute and the native dispatcher's
\* "cover_short"
CoverShortOrder(ticker, shares, qty, price, env) ==
    IF ~env.posOk
    THEN Outcome("string", "failed_cover", <<"getPositions">>, NaN, NothingSeen,
                 NaN, NoOrder)
    ELSE LET seen == [NothingSeen EXCEPT !.qty = Num(qty)]
             priced == [seen EXCEPT !.source = price.source]
         IN  IF qty >= 0
             THEN \* !position || parseFloat(position.qty) >= 0
                  Outcome("string", "no_short_position", <<"getPositions">>,
                          NaN, seen, Num(qty), NoOrder)
             ELSE IF Lt(Num(0 - qty), shares)
             THEN \* shares > Math.abs(parseFloat(position.qty))
                  Outcome("string", "cannot_cover", <<"getPositions">>,
                          NaN, seen, Num(0 - qty), NoOrder)
             ELSE IF ~price.ok
             THEN Outcome("string", "failed_cover",
                          <<"getPositions">> \o price.calls, NaN, priced, NaN,
                          NoOrder)
             ELSE Outcome("string",
                          IF env.orderOk THEN "submitted_cover" ELSE "failed_cover",
                          <<"getPositions">> \o price.calls \o <<"createOrder">>,
                          Num(price.price), priced, NaN,
                          MarketOrder(ticker, shares, "buy"))

\* the arguments of a tool call: args itself may be null, every property may
\* be missing (NaN / "" / <<>> / "undef")
Args(ticker, tickers, shares, quantity, thought_process) ==
    [isNull |-> FALSE, ticker |-> ticker, tickers |-> tickers,
     shares |-> shares, quantity |-> quantity,
     thought_process |-> thought_process]
NoArgs == Args("", <<>>, NaN, NaN, "undef")
NullArgs == [NoArgs EXCEPT !.isNull = TRUE]
TradeArgs(ticker, shares, quantity) == Args(ticker, <<>>, shares, quantity, "undef")
PriceArgs(ticker) == Args(ticker, <<>>, NaN, NaN, "undef")
ThinkArgs(thought_process) == Args("", <<>>, NaN, NaN, thought_process)

Plain(text, calls) ==
    Outcome("string", text, calls, NaN, NothingSeen, NaN, NoOrder)

\* positions.find(p => p.symbol === ticker); parseFloat(position.qty), 0 when
\* no position is listed
PositionQty(ticker) ==
    IF ticker \in DOMAIN positions THEN positions[ticker] ELSE 0

\* ---- the structured tools handed to the Agents SDK (agent.ts:462-720) ----
buyTool(input, env) ==
    BuyOrder(input.ticker, input.shares, account.buying_power,
             getStockPrice(env.quote), env)

sellTool(input, env) ==
    SellOrder(input.ticker, input.shares, PositionQty(input.ticker),
              getStockPrice(env.quote), env)

shortSellTool(input, env) ==
    ShortSellOrder(input.ticker, input.shares, account.portfolio_value,
                   account.buying_power, getStockPrice(env.quote), env)

coverShortTool(input, env) ==
    CoverShortOrder(input.ticker, input.shares, PositionQty(input.ticker),
                    getStockPrice(env.quote), env)

\* const price = await getStockPrice(ticker); ...; return price;
getStockPriceTool(input, env) ==
    LET price == getStockPrice(env.quote)
    IN  IF price.ok
        THEN Outcome("number", "price", price.calls, Num(price.price),
                     NothingSeen, NaN, NoOrder)
        ELSE Outcome("throw", "error", price.calls, NaN, NothingSeen, NaN,
                     NoOrder)

thinkTool(input, env) == Plain("thinking", <<>>)

\* webSearch catches every failure of fetch and answers with a string
webSearchTool(input, env) == Plain("search", <<"fetch">>)

\* getPortfolio never rejects: it answers the empty portfolio on failure
getPortfolioTool(input, env) ==
    Plain("portfolio", <<"getAccount", "getPositions", "getOrders">>)

\* calculateNetWorth, getPortfolio and calculateAnnualizedReturn catch the
\* failures of their remote calls
getNetWorthTool(input, env) ==
    Plain("net_worth",
          <<"getAccount", "getAccount", "getPositions", "getOrders">>)

ToolExecute(name, input, env) ==
    CASE name = "buy" -> buyTool(input, env)
      [] name = "sell" -> sellTool(input, env)
      [] name = "get_stock_price" -> getStockPriceTool(input, env)
      [] name = "think" -> thinkTool(input, env)
      [] name = "web_search" -> webSearchTool(input, env)
      [] name = "get_portfolio" -> getPortfolioTool(input, env)
      [] name = "get_net_worth" -> getNetWorthTool(input, env)
      [] name = "short_sell" -> shortSellTool(input, env)
      [] name = "cover_short" -> coverShortTool(input, env)

\* ---- executeToolCall (agent.ts:1319-1448) ----
UnknownFunction_Raises(name) ==
    Outcome("throw", "Unknown function: " \o name, <<>>, NaN, NothingSeen, NaN,
            NoOrder)

\* default: return `Unknown function: ${name}`
UnknownFunction(name) == Plain("Unknown function: " \o name, <<>>)

ReadsArgs(name) ==
    name \in {"think", "get_stock_price", "web_search", "buy", "sell"}

ExecuteGetStockPrice(args, env) ==
    IF args.ticker = "" /\ args.tickers # <<>>
    THEN \* Array.isArray(ticker): each price in its own try / catch
         Outcome("string", "prices",
                 [k \in 1..Len(args.tickers) |-> "getLatestQuote"],
                 NaN, NothingSeen, NaN, NoOrder)
    ELSE LET price == getStockPrice(env.quote)
         IN  IF price.ok
             THEN Outcome("string", "price", price.calls, Num(price.price),
                          NothingSeen, NaN, NoOrder)
             ELSE Plain("function_execution_failed", price.calls)

executeToolCall(name, args, env) ==
    IF args.isNull /\ ReadsArgs(name)
    THEN Plain("function_execution_failed", <<>>)
    ELSE CASE name = "think" ->
                \* thoughts.forEach is not a function unless thoughts is an array
                IF args.thought_process = "string"
                THEN Plain("function_execution_failed", <<>>)
                ELSE Plain("thinking", <<>>)
           [] name = "get_stock_price" -> ExecuteGetStockPrice(args, env)
           [] name = "get_portfolio" -> getPortfolioTool(args, env)
           [] name = "get_net_worth" -> getNetWorthTool(args, env)
           [] name = "web_search" -> Plain("search", <<"fetch">>)
           [] name = "buy" ->
                BuyOrder(args.ticker, JsOr(args.quantity, args.shares),
                         account.buying_power, getStockPrice(env.quote), env)
           [] name = "sell" ->
                SellOrder(args.ticker, JsOr(args.quantity, args.shares),
                          PositionQty(args.ticker), getStockPrice(env.quote), env)
           [] OTHER -> UnknownFunction(name)

\* ---- the switch of runNativeGeminiTradingSession (agent.ts:1893-2090) ----
\* const { ticker, shares } = args, inside the case's try / catch
NativeToolCall(name, args, env) ==
    IF name = "short_sell"
    THEN IF args.isNull THEN Plain("failed_short_sell", <<>>)
         ELSE ShortSellOrder(args.ticker, args.shares, account.portfolio_value,
                             account.buying_power, getStockPrice(env.quote), env)
    ELSE IF name = "cover_short"
    THEN IF args.isNull THEN Plain("failed_cover", <<>>)
         ELSE CoverShortOrder(args.ticker, args.shares, PositionQty(args.ticker),
                              getStockPrice(env.quote), env)
    ELSE UnknownFunction(name)

\* ---- TradingService (part_006:307-367) ----
TradingService_buyStock(ticker, shares, env) ==
    BuyOrder(ticker, shares, account.buying_power,
             TradingService_getStockPrice(ticker, env.quote, env.yahoo, env.rnd),
             env)

TradingService_sellStock(ticker, shares, env) ==
    SellOrder(ticker, shares, PositionQty(ticker),
              TradingService_getStockPrice(ticker, env.quote, env.yahoo, env.rnd),
              env)

(***************************************************************************)
(* Dispatch                                                                *)
(***************************************************************************)
MaxShares == 6            \* largest share count requested

TradeTickers == {"AAPL", "ZZZZ"}
PriceTickers == {"AAPL", "aapl", "NIO", "ZZZZ"}
ShareCounts == {1, MaxShares - 1, MaxShares}
BuyingPowers == {10000, 100000}
PositionQtys == {-5, 0, 5}

ToolNames == {"think", "get_stock_price", "get_portfolio", "get_net_worth",
              "web_search", "buy", "sell", "short_sell", "cover_short"}

\* calls the SDK hands to a tool's execute: validated against its zod schema
StructuredCalls ==
    {[name |-> n, args |-> TradeArgs(t, Num(s), NaN)] :
        n \in {"buy", "sell"}, t \in TradeTickers, s \in ShareCounts}
    \cup {[name |-> "get_stock_price", args |-> PriceArgs(t)] : t \in {"AAPL"}}
    \cup {[name |-> "think", args |-> ThinkArgs("array")]}
    \cup {[name |-> n, args |-> NoArgs] :
            n \in {"web_search", "get_portfolio", "get_net_worth"}}

\* calls parsed out of the model's text: nothing validates them
TextCalls ==
    {[name |-> n, args |-> TradeArgs(t, Num(s), NaN)] :
        n \in {"buy", "sell"}, t \in TradeTickers, s \in ShareCounts}
    \cup {[name |-> n, args |-> TradeArgs("AAPL", NaN, Num(MaxShares - 1))] :
            n \in {"buy", "sell"}}
    \cup {[name |-> n, args |-> TradeArgs("AAPL", NaN, NaN)] :
            n \in {"buy", "sell"}}
    \cup {[name |-> "get_stock_price", args |-> PriceArgs("AAPL")],
          [name |-> "get_stock_price",
           args |-> Args("", <<"AAPL", "ZZZZ">>, NaN, NaN, "undef")]}
    \cup {[name |-> "think", args |-> ThinkArgs(tp)] :
            tp \in {"array", "undef", "string"}}
    \cup {[name |-> n, args |-> NoArgs] :
            n \in {"web_search", "get_portfolio", "get_net_worth",
                   "short_sell", "cover_short", "frobnicate"}}
    \cup {[name |-> n, args |-> a] :
            n \in {"", "BUY", "buy_stock"}, a \in {NoArgs, NullArgs}}
    \cup {[name |-> n, args |-> NullArgs] : n \in ToolNames \cup {"frobnicate"}}

\* short_sell / cover_short as the SDK hands them to the tools
ShortToolCalls ==
    {[name |-> n, args |-> TradeArgs(t, Num(s), NaN)] :
        n \in {"short_sell", "cover_short"}, t \in TradeTickers,
        s \in ShareCounts}

\* ... and as the native dispatcher takes them from the model's function call
ShortNativeCalls ==
    ShortToolCalls
    \cup {[name |-> n, args |-> a] :
            n \in {"short_sell", "cover_short"},
            a \in {TradeArgs("AAPL", NaN, NaN), NullArgs}}
    \cup {[name |-> "frobnicate", args |-> NoArgs]}

\* the same calls when they are parsed out of the model's text
ShortTextCalls ==
    {c \in TextCalls : c.name \in {"short_sell", "cover_short"}}
    \cup ShortToolCalls

Equities == {MinShortEquity - 1, MinShortEquity}

Envs ==
    {Env(b, b, q, ThrowYahoo, 0, o) :
        b \in BOOLEAN, q \in Quotes, o \in BOOLEAN}

ServiceEnvs ==
    {Env(b, b, q, y, r, o) :
        b \in BOOLEAN, q \in {ThrowQuote, Quote(19999, 20001)},
        y \in {ThrowYahoo, Yahoo(0), Yahoo(19950)},
        r \in RandomSamples, o \in BOOLEAN}

NoDispatch == [path |-> "none", name |-> "", args |-> NoArgs,
               out |-> Plain("", <<>>)]

NoPrice == [impl |-> "none", ticker |-> "", quote |-> NullQuote,
            yahoo |-> ThrowYahoo, result |-> PriceResult(FALSE, 0, "none", <<>>)]

DispatchIdle ==
    /\ account = [buying_power |-> 0, portfolio_value |-> 0]
    /\ positions = [t \in TradeTickers |-> 0]
    /\ dispatchLog = NoDispatch
    /\ priceLog = NoPrice

Record(path, name, args, out) ==
    /\ dispatchLog' = [path |-> path, name |-> name, args |-> args, out |-> out]
    /\ UNCHANGED <<account, positions, priceLog>>
    /\ UNCHANGED <<nativeVars, retryVars, threadVars, reportVars, clockVars, procVars, runVars, profileVars>>

\* the Agents SDK runs a structured tool's execute
DispatchTool(call, env) ==
    /\ call \in StructuredCalls
    /\ Record("tool", call.name, call.args, ToolExecute(call.name, call.args, env))

\* a call parsed from the model's text goes through executeToolCall
DispatchText(call, env) ==
    /\ call \in TextCalls \cup ShortTextCalls
    /\ Record("text", call.name, call.args,
              executeToolCall(call.name, call.args, env))

\* TradingService.buyStock / sellStock
ServiceTrade(name, ticker, shares, env) ==
    /\ name \in {"buy", "sell"}
    /\ Record("service", name, TradeArgs(ticker, Num(shares), NaN),
              IF name = "buy"
              THEN TradingService_buyStock(ticker, Num(shares), env)
              ELSE TradingService_sellStock(ticker, Num(shares), env))

\* the SDK runs shortSellTool / coverShortTool
DispatchShortTool(call, env) ==
    /\ call \in ShortToolCalls
    /\ Record("tool", call.name, call.args, ToolExecute(call.name, call.args, env))

\* the native dispatcher runs a function call of the model
DispatchNative(call, env) ==
    /\ call \in ShortNativeCalls
    /\ Record("native", call.name, call.args,
              NativeToolCall(call.name, call.args, env))

\* the account's equity changes between dispatches
EquityUpdate(equity) ==
    /\ equity # account.portfolio_value
    /\ account' = [account EXCEPT !.portfolio_value = equity]
    /\ UNCHANGED <<positions, dispatchLog, priceLog>>
    /\ UNCHANGED <<nativeVars, retryVars, threadVars, reportVars, clockVars, procVars, runVars, profileVars>>

\* the brokerage account changes between dispatches (fills, market moves)
BrokerageUpdate(bp, qty) ==
    /\ account' = [account EXCEPT !.buying_power = bp]
    /\ positions' = [positions EXCEPT !["AAPL"] = qty]
    /\ <<account', positions'>> # <<account, positions>>
    /\ UNCHANGED <<dispatchLog, priceLog>>
    /\ UNCHANGED <<nativeVars, retryVars, threadVars, reportVars, clockVars, procVars, runVars, profileVars>>

(***************************************************************************)
(* Price resolution                                                        *)
(***************************************************************************)
Resolved(impl, ticker, quote, yahoo, result) ==
    /\ priceLog' = [impl |-> impl, ticker |-> ticker, quote |-> quote,
                    yahoo |-> yahoo, result |-> result]
    /\ UNCHANGED <<account, positions, dispatchLog>>
    /\ UNCHANGED <<nativeVars, retryVars, threadVars, reportVars, clockVars, procVars, runVars, profileVars>>

\* agent.ts getStockPrice(ticker)
AgentGetStockPrice(ticker, quote) ==
    /\ ticker \in PriceTickers
    /\ Resolved("agent", ticker, quote, ThrowYahoo, getStockPrice(quote))

\* TradingService.getStockPrice(ticker)
ServiceGetStockPrice(ticker, quote, yahoo, rnd) ==
    /\ ticker \in PriceTickers
    /\ Resolved("service", ticker, quote, yahoo,
                TradingService_getStockPrice(ticker, quote, yahoo, rnd))

\* the earlier agent's getStockPrice(ticker)
LegacyGetStockPrice(ticker, quote, yahoo) ==
    /\ ticker \in PriceTickers
    /\ Resolved("legacy", ticker, quote, yahoo,
                Legacy_getStockPrice(quote, yahoo))

(***************************************************************************)
(* Portfolio reconciler: getPortfolio and calculateNetWorth                *)
(***************************************************************************)
\* alpaca.getAccount(): rejects, or answers cash (cents) and portfolio_value
\* (tenths of a cent: the brokerage reports more than two decimals)
ThrowAccount == [ok |-> FALSE, cash |-> 0, portfolio_value |-> 0]
Account(cash, portfolio_value) ==
    [ok |-> TRUE, cash |-> cash, portfolio_value |-> portfolio_value]

\* alpaca.getPositions(): rejects, or answers a qty per symbol (0: a position
\* row whose qty is 0 or no row at all)
ThrowPositions == [ok |-> FALSE, qty |-> [t \in TradeTickers |-> 0]]
Positions(aapl, zzzz) ==
    [ok |-> TRUE, qty |-> [t \in TradeTickers |-> IF t = "AAPL" THEN aapl ELSE zzzz]]

\* alpaca.getOrders(): rejects, or answers orders, newest first; filled_at 0
\* is an order that was never filled
AlpacaOrder(symbol, side, filled_at, filled_qty, filled_avg_price) ==
    [symbol |-> symbol, side |-> side, filled_at |-> filled_at,
     filled_qty |-> filled_qty, filled_avg_price |-> filled_avg_price]
ThrowOrders == [ok |-> FALSE, orders |-> <<>>]
Orders(orders) == [ok |-> TRUE, orders |-> orders]

AccountAnswers == { ThrowAccount, Account(200000, 2999994), Account(50000, 1000005) }
PositionAnswers == { ThrowPositions, Positions(0, 0), Positions(5, 0),
                     Positions(-5, 3) }
OrderAnswers ==
    { ThrowOrders, Orders(<<>>),
      Orders(<<AlpacaOrder("AAPL", "sell", 3, 5, 21000),
               AlpacaOrder("ZZZZ", "buy", 0, 0, 0),
               AlpacaOrder("AAPL", "buy", 1, 5, 20000)>>),
      Orders(<<AlpacaOrder("ZZZZ", "buy", 2, 3, 1000),
               AlpacaOrder("AAPL", "sell", 4, 2, 21000),
               AlpacaOrder("AAPL", "buy", 1, 5, 20000),
               AlpacaOrder("ZZZZ", "sell", 2, 1, 1100)>>),
      \* buys of 5 @ $100 and 5 @ $120, then a sell of 5 @ $130, with a buy
      \* of another ticker, a buy at the sell's time and a later buy
      Orders(<<AlpacaOrder("AAPL", "buy", 6, 5, 9000),
               AlpacaOrder("AAPL", "buy", 5, 5, 11000),
               AlpacaOrder("AAPL", "sell", 5, 5, 13000),
               AlpacaOrder("ZZZZ", "buy", 4, 5, 500),
               AlpacaOrder("AAPL", "buy", 3, 5, 12000),
               AlpacaOrder("AAPL", "buy", 1, 5, 10000)>>),
      \* an average cost that is no whole number of cents, and a loss
      Orders(<<AlpacaOrder("AAPL", "sell", 4, 2, 10050),
               AlpacaOrder("AAPL", "buy", 2, 2, 10100),
               AlpacaOrder("AAPL", "buy", 1, 1, 10000)>>) }
QuoteBooks == [TradeTickers -> {ThrowQuote, Quote(19999, 20001)}]

\* Math.round(x * 100) / 100 of an amount given in tenths of a cent
RoundCents(mills) == (mills + 5) \div 10

\* one entry of portfolio.history
Trade(order) ==
    [date |-> order.filled_at,
     type |-> IF order.side = "buy" THEN "buy" ELSE "sell",
     ticker |-> order.symbol,
     shares |-> order.filled_qty,
     price |-> order.filled_avg_price,
     total |-> order.filled_qty * order.filled_avg_price]

\* .sort((a, b) => new Date(a.date).getTime() - new Date(b.date).getTime())
RECURSIVE InsertByDate(_, _)
InsertByDate(sorted, trade) ==
    IF sorted = <<>> THEN <<trade>>
    ELSE IF sorted[Len(sorted)].date <= trade.date THEN Append(sorted, trade)
    ELSE Append(InsertByDate(SubSeq(sorted, 1, Len(sorted) - 1), trade),
                sorted[Len(sorted)])

RECURSIVE SortByDate(_)
SortByDate(trades) ==
    IF trades = <<>> THEN <<>>
    ELSE InsertByDate(SortByDate(SubSeq(trades, 1, Len(trades) - 1)),
                      trades[Len(trades)])

History_BrokerageOrder(orders) ==
    [k \in 1..Len(SelectSeq(orders, LAMBDA o : o.filled_at # 0)) |->
        Trade(SelectSeq(orders, LAMBDA o : o.filled_at # 0)[k])]

\* orders.filter(order => order.filled_at).map(...).sort(...)
History(orders) ==
    SortByDate([k \in 1..Len(SelectSeq(orders, LAMBDA o : o.filled_at # 0)) |->
                  Trade(SelectSeq(orders, LAMBDA o : o.filled_at # 0)[k])])

\* if (position.qty && parseFloat(position.qty) !== 0) holdings[symbol] = qty
Holdings(qty) == [t \in {s \in DOMAIN qty : qty[s] # 0} |-> qty[t]]

EmptyPortfolio ==
    [cash |-> 0, holdings |-> [t \in {} |-> 0], history |-> <<>>]

getPortfolio_Partial(acct, pos, ords) ==
    [cash |-> IF acct.ok THEN acct.cash ELSE 0,
     holdings |-> IF pos.ok THEN Holdings(pos.qty) ELSE [t \in {} |-> 0],
     history |-> IF ords.ok THEN History(ords.orders) ELSE <<>>]

\* getPortfolio: Promise.all of the three fetches inside one try / catch
getPortfolio(acct, pos, ords) ==
    IF acct.ok /\ pos.ok /\ ords.ok
    THEN [cash |-> acct.cash, holdings |-> Holdings(pos.qty),
          history |-> History(ords.orders)]
    ELSE EmptyPortfolio

RECURSIVE SumOver(_, _)
SumOver(S, f) ==
    IF S = {} THEN 0
    ELSE LET t == CHOOSE x \in S : TRUE IN f[t] + SumOver(S \ {t}, f)

\* for (const [ticker, shares] of Object.entries(portfolio.holdings))
\*   if (shares > 0) try { totalHoldingsValue += shares * price } catch {}
HoldingsValue(holdings, quotes) ==
    SumOver(DOMAIN holdings,
            [t \in DOMAIN holdings |->
                IF holdings[t] > 0 /\ getStockPrice(quotes[t]).ok
                THEN holdings[t] * getStockPrice(quotes[t]).price
                ELSE 0])

\* calculateNetWorth: acct is the answer to its own getAccount call, acct2
\* the answer to the one getPortfolio makes afterwards
calculateNetWorth(acct, acct2, pos, ords, quotes) ==
    IF acct.ok
    THEN RoundCents(acct.portfolio_value)
    ELSE LET portfolio == getPortfolio(acct2, pos, ords)
         IN  RoundCents((portfolio.cash
                         + HoldingsValue(portfolio.holdings, quotes)) * 10)

\* ---- P&L of the report (generateCSVReport, updateReadme) ----
\* (num / den).toFixed(2) of an amount in cents: to the nearest cent
ToFixed2(num, den) ==
    IF num >= 0 THEN (2 * num + den) \div (2 * den)
    ELSE 0 - ((2 * (0 - num) + den) \div (2 * den))

PriorBuys_AnyDate(history, trade) ==
    SelectSeq(history, LAMBDA t : t.ticker = trade.ticker /\ t.type = "buy")

\* history.filter(t => t.ticker === trade.ticker && t.type === 'buy'
\*                     && new Date(t.date) < new Date(trade.date))
PriorBuys(history, trade) ==
    SelectSeq(history, LAMBDA t : /\ t.ticker = trade.ticker
                                  /\ t.type = "buy"
                                  /\ t.date < trade.date)

\* buyTrades.reduce((sum, t) => sum + t.shares, 0) and ... + t.total
RECURSIVE Reduce(_, _)
Reduce(trades, field) ==
    IF trades = <<>> THEN 0
    ELSE Reduce(SubSeq(trades, 1, Len(trades) - 1), field)
         + trades[Len(trades)][field]

NoPnl == [reported |-> FALSE, pnl |-> 0]

\* pnl = ((trade.price - avgBuyPrice) * trade.shares).toFixed(2), with
\* avgBuyPrice = totalBuyShares > 0 ? totalBuyCost / totalBuyShares : 0
TradePnl(history, trade) ==
    LET buyTrades == PriorBuys(history, trade)
        totalBuyShares == Reduce(buyTrades, "shares")
        totalBuyCost == Reduce(buyTrades, "total")
    IN  IF trade.type = "sell" /\ Len(buyTrades) > 0
        THEN [reported |-> TRUE,
              pnl |-> IF totalBuyShares > 0
                      THEN ToFixed2((trade.price * totalBuyShares - totalBuyCost)
                                        * trade.shares, totalBuyShares)
                      ELSE trade.price * trade.shares]
        ELSE NoPnl

ReportRow(history, trade) == [trade |-> trade, pnl |-> TradePnl(history, trade)]

\* portfolio.history.map(trade => ...): one row per trade
CsvRows(history) ==
    [k \in 1..Len(history) |-> ReportRow(history, history[k])]

\* portfolio.history.slice(-20).reverse().map(...).slice(0, 10)
ReadmeTrades(history) ==
    LET first == IF Len(history) > 20 THEN Len(history) - 19 ELSE 1
        last == SubSeq(history, first, Len(history))
        recentTrades == [k \in 1..Len(last) |-> last[Len(last) + 1 - k]]
    IN  [k \in 1..Min(10, Len(recentTrades)) |->
            ReportRow(history, recentTrades[k])]

NoReport ==
    [op |-> "none", acct |-> ThrowAccount, acct2 |-> ThrowAccount,
     pos |-> ThrowPositions, ords |-> ThrowOrders,
     quotes |-> [t \in TradeTickers |-> ThrowQuote],
     portfolio |-> EmptyPortfolio, netWorth |-> 0, rows |-> <<>>]

ReportIdle == reportLog = NoReport

GetPortfolio(acct, pos, ords) ==
    /\ acct \in AccountAnswers
    /\ reportLog' = [NoReport EXCEPT !.op = "getPortfolio", !.acct = acct,
                        !.pos = pos, !.ords = ords,
                        !.portfolio = getPortfolio(acct, pos, ords)]
    /\ UNCHANGED <<nativeVars, retryVars, threadVars, dispatchVars, clockVars, procVars, runVars, profileVars>>

CalculateNetWorth(acct, acct2, pos, ords, quotes) ==
    /\ acct \in AccountAnswers
    /\ reportLog' = [op |-> "calculateNetWorth", acct |-> acct,
                     acct2 |-> acct2, pos |-> pos, ords |-> ords,
                     quotes |-> quotes,
                     portfolio |-> IF acct.ok THEN EmptyPortfolio
                                   ELSE getPortfolio(acct2, pos, ords),
                     netWorth |-> calculateNetWorth(acct, acct2, pos, ords, quotes),
                     rows |-> <<>>]
    /\ UNCHANGED <<nativeVars, retryVars, threadVars, dispatchVars, clockVars, procVars, runVars, profileVars>>

\* generateCSVReport: nothing is written when the history is empty
GenerateCSVReport(acct, pos, ords) ==
    /\ acct \in AccountAnswers
    /\ reportLog' = [NoReport EXCEPT !.op = "generateCSVReport", !.acct = acct,
                        !.pos = pos, !.ords = ords,
                        !.portfolio = getPortfolio(acct, pos, ords),
                        !.rows = CsvRows(getPortfolio(acct, pos, ords).history)]
    /\ UNCHANGED <<nativeVars, retryVars, threadVars, dispatchVars, clockVars, procVars, runVars, profileVars>>

\* updateReadme: the "Recent trades" section
UpdateReadme(acct, pos, ords) ==
    /\ acct \in AccountAnswers
    /\ reportLog' = [NoReport EXCEPT !.op = "updateReadme", !.acct = acct,
                        !.pos = pos, !.ords = ords,
                        !.portfolio = getPortfolio(acct, pos, ords),
                        !.rows = ReadmeTrades(getPortfolio(acct, pos, ords).history)]
    /\ UNCHANGED <<nativeVars, retryVars, threadVars, dispatchVars, clockVars, procVars, runVars, profileVars>>

(***************************************************************************)
(* Market clock: isMarketOpen and getNextMarketOpen                        *)
(* Instants are minutes since a Monday 00:00 UTC.                          *)
(***************************************************************************)
Day == 1440
Week == 7 * Day
marketOpen == 9 * 60 + 30      \* const marketOpen = 9 * 60 + 30
marketClose == 16 * 60         \* const marketClose = 16 * 60
UtcOpenMinute == 13 * 60 + 30  \* Date.UTC(..., 13, 30, 0, 0)

\* minutes America/New_York is behind UTC: 240 in summer (EDT), 300 in
\* winter (EST)
ExchangeOffsets == {240, 300}

\* A zone: the exchange's offset, the offset of the time zone the process
\* runs in (UTC or New York) and process.env.TESTING_MODE === 'true'
Zone(etOffset, tz, testing) ==
    [etOffset |-> etOffset, tz |-> tz, testing |-> testing]
Zones ==
    UNION {{Zone(e, tz, testing) : tz \in {0, e}, testing \in BOOLEAN} :
              e \in ExchangeOffsets}

\* Date.prototype.getDay() of a wall-clock minute count: 0 = Sunday
GetDay(local) == ((local \div Day) + 1) % 7

\* hours * 60 + minutes of a wall-clock minute count
TimeInMinutes(local) == local % Day

isMarketOpen_Utc(t, zone) ==
    IF zone.testing THEN TRUE
    ELSE IF GetDay(t) = 0 \/ GetDay(t) = 6 THEN FALSE
    ELSE TimeInMinutes(t) >= marketOpen /\ TimeInMinutes(t) < marketClose

\* isMarketOpen() at instant t
isMarketOpen(t, zone) ==
    IF zone.testing THEN TRUE
    ELSE LET et == t - zone.etOffset
         IN  IF GetDay(et) = 0 \/ GetDay(et) = 6 THEN FALSE
             ELSE /\ TimeInMinutes(et) >= marketOpen
                  /\ TimeInMinutes(et) < marketClose

\* getNextMarketOpen() at instant t: 13:30 UTC of the process-local
\* tomorrow, moved to Monday when that day is a Saturday or a Sunday
getNextMarketOpen(t, zone) ==
    LET tomorrow == ((t - zone.tz) \div Day) + 1
        nextOpen == tomorrow * Day + UtcOpenMinute
        day == GetDay(nextOpen - zone.tz)
    IN  IF day = 6 THEN nextOpen + 2 * Day
        ELSE IF day = 0 THEN nextOpen + Day
        ELSE nextOpen

\* wall-clock times of the exchange at which the clock is read
ExchangeTimes == {0, 8 * 60, marketOpen - 1, marketOpen, 10 * 60,
                  marketClose - 1, marketClose, 16 * 60 + 30, Day - 1}
ClockDays == 7..13

Instants(zone) ==
    {d * Day + e + zone.etOffset : d \in ClockDays, e \in ExchangeTimes}

NoClock == [op |-> "none", t |-> 0, zone |-> Zone(240, 0, FALSE),
            open |-> FALSE, nextOpen |-> 0]

ClockIdle == clockLog = NoClock

\* the process reads the clock at t
ClockInit ==
    \E zone \in Zones : \E t \in Instants(zone) :
        clockLog = [NoClock EXCEPT !.op = "now", !.t = t, !.zone = zone]

IsMarketOpenCall ==
    /\ clockLog.op = "now"
    /\ clockLog' = [clockLog EXCEPT !.op = "isMarketOpen",
                        !.open = isMarketOpen(clockLog.t, clockLog.zone)]
    /\ UNCHANGED <<nativeVars, retryVars, threadVars, dispatchVars, reportVars, procVars, runVars, profileVars>>

GetNextMarketOpenCall ==
    /\ clockLog.op = "now"
    /\ clockLog' = [clockLog EXCEPT !.op = "getNextMarketOpen",
                        !.nextOpen = getNextMarketOpen(clockLog.t, clockLog.zone)]
    /\ UNCHANGED <<nativeVars, retryVars, threadVars, dispatchVars, reportVars, procVars, runVars, profileVars>>

(***************************************************************************)
(* The process: credential validation, main, runContinuous, one session    *)
(***************************************************************************)
intervalMinutes == 30     \* parseInt(... || '30')
SessionMinutes == 30      \* time one session takes

\* the instant t within the modelled week (the clock functions are periodic)
Norm(t) == Week + (t % Week)

\* what the three validations answer, and whether MODEL names a Gemini model
Credentials(isGemini, openaiOk, geminiOk, alpacaOk) ==
    [isGemini |-> isGemini, openaiOk |-> openaiOk, geminiOk |-> geminiOk,
     alpacaOk |-> alpacaOk]
CredentialCases == [isGemini : BOOLEAN, openaiOk : BOOLEAN, geminiOk : BOOLEAN,
                    alpacaOk : BOOLEAN]

hasErrors_BrokerageOnly(c) == ~c.alpacaOk

\* validateAllCredentials: let hasErrors
hasErrors(c) == ~c.openaiOk \/ (c.isGemini /\ ~c.geminiOk) \/ ~c.alpacaOk

LoopMayCheck_NoAwait(pc) == pc \in {"loop", "session"}

\* await runTradingSession(): the loop goes on only when the session has
\* settled
LoopMayCheck(pc) == pc = "loop"

StartsSession_Always(open) == TRUE

\* if (!marketOpen) { ...sleep...; continue; }  else the session starts
StartsSession(open) == open

\* await sleep(Math.max(nextOpen.getTime() - Date.now(), 60000))
SleepUntil(nextOpen, t) == t + (IF nextOpen - t > 1 THEN nextOpen - t ELSE 1)

\* exchange wall-clock times at which the process is started
StartTimes == {8 * 60, marketOpen, marketClose - 45, marketClose - 30,
               16 * 60 + 30}
StartDays == {7, 11, 12}
StartInstants(z) ==
    {Norm(d * Day + e + z.etOffset) : d \in StartDays, e \in StartTimes}

NoStart == [t |-> 0, open |-> FALSE]
NoSleep == [reason |-> "none", at |-> 0, nextOpen |-> 0]
NoExit == [code |-> -1, by |-> "none", phase |-> "none"]
Nothing == [loaded |-> FALSE, conversed |-> FALSE, ordered |-> FALSE]

ProcIdle ==
    /\ pPc = "off"
    /\ mode = "single"
    /\ creds = Credentials(FALSE, TRUE, TRUE, TRUE)
    /\ runZone = Zone(240, 0, FALSE)
    /\ clock = Week
    /\ wakeAt = Week
    /\ phase = "none"
    /\ validations = 0
    /\ ever = Nothing
    /\ startLog = NoStart
    /\ sleepLog = NoSleep
    /\ exitLog = NoExit
    /\ retryPending = FALSE
    /\ sessionsInProgress = 0

\* await validateAllCredentials(): three validations settle, then
\* process.exit(1) if one of the configured providers failed
ValidateAllCredentials ==
    /\ pPc = "start"
    /\ validations' = validations + 1
    /\ IF hasErrors(creds)
       THEN /\ pPc' = "exited"
            /\ exitLog' = [code |-> 1, by |-> "validation", phase |-> phase]
       ELSE /\ pPc' = "main"
            /\ UNCHANGED exitLog
    /\ UNCHANGED <<mode, creds, runZone, clock, wakeAt, phase, ever, startLog,
                   sleepLog, retryPending, sessionsInProgress>>
    /\ UNCHANGED <<nativeVars, retryVars, threadVars, dispatchVars, reportVars, clockVars, runVars,
                   profileVars>>

\* main: runContinuous() installs the SIGINT handler and enters the loop;
\* single mode runs one session whatever the market clock says
Main ==
    /\ pPc = "main"
    /\ IF mode = "continuous"
       THEN /\ pPc' = "loop"
            /\ UNCHANGED <<phase, startLog, sessionsInProgress>>
       ELSE /\ pPc' = "session"
            /\ phase' = "loading"
            /\ startLog' = [t |-> clock, open |-> isMarketOpen(clock, runZone)]
            /\ sessionsInProgress' = sessionsInProgress + 1
    /\ UNCHANGED <<mode, creds, runZone, clock, wakeAt, validations, ever,
                   sleepLog, exitLog, retryPending>>
    /\ UNCHANGED <<nativeVars, retryVars, threadVars, dispatchVars, reportVars, clockVars, runVars,
                   profileVars>>

\* one pass of while (true) up to its first await
LoopCheck ==
    /\ LoopMayCheck(pPc)
    /\ LET open == isMarketOpen(clock, runZone)
           nextOpen == getNextMarketOpen(clock, runZone)
       IN  IF StartsSession(open)
           THEN /\ pPc' = "session"
                /\ phase' = "loading"
                /\ startLog' = [t |-> clock, open |-> open]
                /\ retryPending' = FALSE
                /\ sleepLog' = NoSleep
                /\ sessionsInProgress' = sessionsInProgress + 1
                /\ UNCHANGED wakeAt
           ELSE /\ pPc' = "sleeping"
                /\ sleepLog' = [reason |-> "closed", at |-> clock,
                                nextOpen |-> nextOpen]
                /\ wakeAt' = Norm(SleepUntil(nextOpen, clock))
                /\ UNCHANGED <<phase, startLog, retryPending, sessionsInProgress>>
    /\ UNCHANGED <<mode, creds, runZone, clock, validations, ever, exitLog>>
    /\ UNCHANGED <<nativeVars, retryVars, threadVars, dispatchVars, reportVars, clockVars, runVars,
                   profileVars>>

\* the timer of sleep() fires
Wake ==
    /\ pPc = "sleeping"
    /\ pPc' = "loop"
    /\ clock' = wakeAt
    /\ UNCHANGED <<mode, creds, runZone, wakeAt, phase, validations, ever,
                   startLog, sleepLog, exitLog, retryPending, sessionsInProgress>>
    /\ UNCHANGED <<nativeVars, retryVars, threadVars, dispatchVars, reportVars, clockVars, runVars,
                   profileVars>>

\* runOpenAITradingSession: const thread = await loadThread()
SessionLoad ==
    /\ pPc = "session" /\ phase = "loading"
    /\ phase' = "conversing"
    /\ ever' = [ever EXCEPT !.loaded = TRUE, !.conversed = TRUE]
    /\ UNCHANGED <<pPc, mode, creds, runZone, clock, wakeAt, validations,
                   startLog, sleepLog, exitLog, retryPending, sessionsInProgress>>
    /\ UNCHANGED <<nativeVars, retryVars, threadVars, dispatchVars, reportVars, clockVars, runVars,
                   profileVars>>

\* the model calls buy / sell: alpaca.createOrder is dispatched
OrderDispatched ==
    /\ pPc = "session" /\ phase = "conversing"
    /\ phase' = "order"
    /\ ever' = [ever EXCEPT !.ordered = TRUE]
    /\ UNCHANGED <<pPc, mode, creds, runZone, clock, wakeAt, validations,
                   startLog, sleepLog, exitLog, retryPending, sessionsInProgress>>
    /\ UNCHANGED <<nativeVars, retryVars, threadVars, dispatchVars, reportVars, clockVars, runVars,
                   profileVars>>

\* createOrder settles and the conversation goes on
OrderCompleted ==
    /\ pPc = "session" /\ phase = "order"
    /\ phase' = "conversing"
    /\ UNCHANGED <<pPc, mode, creds, runZone, clock, wakeAt, validations, ever,
                   startLog, sleepLog, exitLog, retryPending, sessionsInProgress>>
    /\ UNCHANGED <<nativeVars, retryVars, threadVars, dispatchVars, reportVars, clockVars, runVars,
                   profileVars>>

\* run() resolves: saveThread, updateReadme, generateCSVReport follow
SessionPersist ==
    /\ pPc = "session" /\ phase = "conversing"
    /\ phase' = "saving"
    /\ UNCHANGED <<pPc, mode, creds, runZone, clock, wakeAt, validations, ever,
                   startLog, sleepLog, exitLog, retryPending, sessionsInProgress>>
    /\ UNCHANGED <<nativeVars, retryVars, threadVars, dispatchVars, reportVars, clockVars, runVars,
                   profileVars>>

\* what follows a session in runContinuous, in the try and in the catch alike:
\* sleep the interval if the market is open now, else until it reopens
AfterSession(t, failed) ==
    /\ pPc' = "sleeping"
    /\ phase' = "none"
    /\ clock' = t
    /\ retryPending' = failed
    /\ IF isMarketOpen(t, runZone)
       THEN /\ sleepLog' = [reason |-> "interval", at |-> t, nextOpen |-> 0]
            /\ wakeAt' = Norm(t + intervalMinutes)
       ELSE /\ sleepLog' = [reason |-> "reopen", at |-> t,
                            nextOpen |-> getNextMarketOpen(t, runZone)]
            /\ wakeAt' = Norm(SleepUntil(getNextMarketOpen(t, runZone), t))
    /\ UNCHANGED exitLog

\* runTradingSession() resolves
SessionCompletes ==
    /\ pPc = "session" /\ phase = "saving"
    /\ IF mode = "continuous"
       THEN AfterSession(Norm(clock + SessionMinutes), FALSE)
       ELSE /\ pPc' = "exited"
            /\ phase' = "none"
            /\ clock' = Norm(clock + SessionMinutes)
            /\ exitLog' = [code |-> 0, by |-> "end", phase |-> "none"]
            /\ UNCHANGED <<wakeAt, sleepLog, retryPending>>
    /\ sessionsInProgress' = sessionsInProgress - 1
    /\ UNCHANGED <<mode, creds, runZone, validations, ever, startLog>>
    /\ UNCHANGED <<nativeVars, retryVars, threadVars, dispatchVars, reportVars, clockVars, runVars,
                   profileVars>>

\* runTradingSession() rejects (run() failed; loadThread and saveThread do
\* not throw): caught by runContinuous, fatal in single mode
SessionFails ==
    /\ pPc = "session" /\ phase = "conversing"
    /\ IF mode = "continuous"
       THEN AfterSession(Norm(clock + SessionMinutes), TRUE)
       ELSE /\ pPc' = "exited"
            /\ phase' = "none"
            /\ clock' = Norm(clock + SessionMinutes)
            /\ exitLog' = [code |-> 1, by |-> "failure", phase |-> "none"]
            /\ UNCHANGED <<wakeAt, sleepLog, retryPending>>
    /\ sessionsInProgress' = sessionsInProgress - 1
    /\ UNCHANGED <<mode, creds, runZone, validations, ever, startLog>>
    /\ UNCHANGED <<nativeVars, retryVars, threadVars, dispatchVars, reportVars, clockVars, runVars,
                   profileVars>>

\* process.on('SIGINT', () => { log(...); process.exit(0); })
Sigint ==
    /\ mode = "continuous"
    /\ pPc \in {"loop", "session", "sleeping"}
    /\ pPc' = "exited"
    /\ exitLog' = [code |-> 0, by |-> "SIGINT", phase |-> phase]
    /\ UNCHANGED <<mode, creds, runZone, clock, wakeAt, phase, validations, ever,
                   startLog, sleepLog, retryPending, sessionsInProgress>>
    /\ UNCHANGED <<nativeVars, retryVars, threadVars, dispatchVars, reportVars, clockVars, runVars,
                   profileVars>>

(***************************************************************************)
(* The conversation of one session:                                        *)
(*   withRetry(() => run(agent, thread.concat(...), { maxTurns: 100 }))    *)
(* run() is the Agents SDK's loop: one call of the model per turn, ended   *)
(* by a final output, by an error of the provider or by the turn limit.    *)
(***************************************************************************)
maxTurns == 100           \* { maxTurns: 100 }
DefaultRetries == 5       \* withRetry(fn, retries = 5, ...)

TurnAllowed_Unbounded(n) == TRUE

\* the SDK starts a further turn only below the limit
TurnAllowed(n) == n < maxTurns

RunIdle ==
    /\ runPc = "idle"
    /\ turns = 0
    /\ runIndex = 0
    /\ sessionTurns = 0

\* withRetry invokes run(): a conversation starts from the loaded thread
RunStarts ==
    /\ runPc = "ready"
    /\ runPc' = "running"
    /\ turns' = 0
    /\ UNCHANGED <<runIndex, sessionTurns>>
    /\ UNCHANGED <<nativeVars, retryVars, threadVars, dispatchVars, reportVars, clockVars,
                   procVars, profileVars>>

\* a turn in which the model returns tool calls: they are dispatched and the
\* results go back to the model
ToolTurn ==
    /\ runPc = "running"
    /\ TurnAllowed(turns)
    /\ turns' = turns + 1
    /\ sessionTurns' = sessionTurns + 1
    /\ UNCHANGED <<runPc, runIndex>>
    /\ UNCHANGED <<nativeVars, retryVars, threadVars, dispatchVars, reportVars, clockVars,
                   procVars, profileVars>>

\* a turn in which the model returns its final output: run() resolves
FinalTurn ==
    /\ runPc = "running"
    /\ TurnAllowed(turns)
    /\ turns' = turns + 1
    /\ sessionTurns' = sessionTurns + 1
    /\ runPc' = "completed"
    /\ UNCHANGED runIndex
    /\ UNCHANGED <<nativeVars, retryVars, threadVars, dispatchVars, reportVars, clockVars,
                   procVars, profileVars>>

\* the turn limit is reached: run() rejects with an error that carries no
\* status, which withRetry re-throws
TurnLimitExceeded ==
    /\ runPc = "running"
    /\ ~TurnAllowed(turns)
    /\ runPc' = "failed"
    /\ UNCHANGED <<turns, runIndex, sessionTurns>>
    /\ UNCHANGED <<nativeVars, retryVars, threadVars, dispatchVars, reportVars, clockVars,
                   procVars, profileVars>>

\* the provider fails during a turn: withRetry sleeps and invokes run() again
\* for status 429 / 5xx while invocations are left, else the session fails
ProviderError(error) ==
    /\ runPc = "running"
    /\ TurnAllowed(turns)
    /\ turns' = turns + 1
    /\ sessionTurns' = sessionTurns + 1
    /\ runIndex' = runIndex + 1
    /\ runPc' = IF IsRetryableStatus(error) /\ LoopContinues(runIndex + 1, DefaultRetries)
                THEN "ready" ELSE "failed"
    /\ UNCHANGED <<nativeVars, retryVars, threadVars, dispatchVars, reportVars, clockVars,
                   procVars, profileVars>>

(***************************************************************************)
(* Profiles: getProfileName and the files of two agent processes           *)
(***************************************************************************)
\* an environment variable that is not set (or empty, which is falsy too)
UnsetModel == <<>>
UnsetProfile == ""

\* model names, character by character, for String.prototype.includes
gpt4oName == <<"g", "p", "t", "-", "4", "o">>
gpt4oMiniName == gpt4oName \o <<"-", "m", "i", "n", "i">>
gpt5Name == <<"g", "p", "t", "-", "5">>
gpt5MiniName == gpt5Name \o <<"-", "m", "i", "n", "i">>
claudeName == <<"c", "l", "a", "u", "d", "e">>
claudeSonnetName == claudeName \o <<"-", "s", "o", "n", "n", "e", "t">>

ModelSettings == {UnsetModel, gpt4oName, gpt4oMiniName, gpt5Name, gpt5MiniName,
                  claudeSonnetName}
ProfileSettings == {UnsetProfile, "gpt4o", "claude", "default", "gpt5", "gpt5mini"}

AgentEnv(model, profile) == [MODEL |-> model, PROFILE_NAME |-> profile]
AgentEnvs == {AgentEnv(m, p) : m \in ModelSettings, p \in ProfileSettings}

\* s.includes(sub)
Includes(s, sub) ==
    \E k \in 0..(Len(s) - Len(sub)) : SubSeq(s, k + 1, k + Len(sub)) = sub

\* const modelName = process.env.MODEL || "gpt-4o"
ModelName(env) == IF env.MODEL = UnsetModel THEN gpt4oName ELSE env.MODEL

getProfileName(env) ==
    LET modelName == ModelName(env)
        profileName == env.PROFILE_NAME
        isValidMatch ==
            \/ Includes(modelName, gpt4oName) /\ profileName = "gpt4o"
            \/ Includes(modelName, claudeName) /\ profileName = "claude"
            \/ profileName = "default"
    IN  IF profileName # UnsetProfile /\ isValidMatch THEN profileName
        ELSE IF Includes(modelName, gpt4oName) THEN "gpt4o"
        ELSE IF Includes(modelName, claudeName) THEN "claude"
        ELSE "default"

\* `results/${profileName}/thread-${profileName}.json`
ThreadFilePath(profileName) ==
    <<"results/", profileName, "/thread-", profileName, ".json">>

Agents == {1, 2}          \* two agent processes on one checkout

NoProfile == "none"

FileAccess(agent, op, path) == [agent |-> agent, op |-> op, path |-> path]

ProfileIdle ==
    /\ agentEnv = [a \in Agents |-> AgentEnv(UnsetModel, UnsetProfile)]
    /\ agentPc = [a \in Agents |-> "off"]
    /\ agentProfile = [a \in Agents |-> NoProfile]
    /\ fileAccess = {}

\* module load: const profileName = getProfileName()
AgentStarts(a) ==
    /\ agentPc[a] = "off"
    /\ agentPc' = [agentPc EXCEPT ![a] = "started"]
    /\ agentProfile' = [agentProfile EXCEPT ![a] = getProfileName(agentEnv[a])]
    /\ UNCHANGED <<agentEnv, fileAccess>>
    /\ UNCHANGED <<nativeVars, retryVars, threadVars, dispatchVars, reportVars, clockVars,
                   procVars, runVars>>

\* loadThread reads the profile's thread file
AgentLoadsThread(a) ==
    /\ agentPc[a] \in {"started", "saved"}
    /\ agentPc' = [agentPc EXCEPT ![a] = "loaded"]
    /\ fileAccess' = fileAccess \cup
            {FileAccess(a, "read", ThreadFilePath(agentProfile[a]))}
    /\ UNCHANGED <<agentEnv, agentProfile>>
    /\ UNCHANGED <<nativeVars, retryVars, threadVars, dispatchVars, reportVars, clockVars,
                   procVars, runVars>>

\* saveThread writes the profile's thread file
AgentSavesThread(a) ==
    /\ agentPc[a] = "loaded"
    /\ agentPc' = [agentPc EXCEPT ![a] = "saved"]
    /\ fileAccess' = fileAccess \cup
            {FileAccess(a, "write", ThreadFilePath(agentProfile[a]))}
    /\ UNCHANGED <<agentEnv, agentProfile>>
    /\ UNCHANGED <<nativeVars, retryVars, threadVars, dispatchVars, reportVars, clockVars,
                   procVars, runVars>>

(***************************************************************************)
(* parseTextForToolCalls  (src/src/agent.ts:1237-1316)                     *)
(* The model's text is a sequence of lexical pieces: the opening fence     *)
(* ```json, the closing fence ```, the braces, the member "tool":"<name>", *)
(* the key "parameters":, an object's members, an array value and prose.   *)
(***************************************************************************)
Tok(kind) == [t |-> kind, name |-> ""]
ToolKey(name) == [t |-> "tool", name |-> name]

\* {"tool":"<name>","parameters":{"ticker":"AAPL","shares":1}}
ObjectCall(name) ==
    <<Tok("lb"), ToolKey(name), Tok("params"), Tok("lb"), Tok("members"),
      Tok("rb"), Tok("rb")>>
\* {"tool":"<name>","parameters":{}}
EmptyObjectCall(name) ==
    <<Tok("lb"), ToolKey(name), Tok("params"), Tok("lb"), Tok("rb"), Tok("rb")>>
\* {"tool":"<name>","parameters":["AAPL"]}
ArrayCall(name) ==
    <<Tok("lb"), ToolKey(name), Tok("params"), Tok("array"), Tok("rb")>>
Fenced(object) == <<Tok("fence")>> \o object \o <<Tok("close")>>
Prose == <<Tok("prose")>>

ParsedCall(name, args) == [name |-> name, args |-> args]
NotJson == [ok |-> FALSE, call |-> ParsedCall("", "none")]

\* JSON.parse(piece) followed by if (jsonObj.tool && jsonObj.parameters):
\* the objects of the three shapes above parse, every other piece throws
JsonToolObject(piece) ==
    IF Len(piece) = 7 /\ piece = ObjectCall(piece[2].name)
    THEN [ok |-> TRUE, call |-> ParsedCall(piece[2].name, "members")]
    ELSE IF Len(piece) = 6 /\ piece = EmptyObjectCall(piece[2].name)
    THEN [ok |-> TRUE, call |-> ParsedCall(piece[2].name, "empty")]
    ELSE IF Len(piece) = 5 /\ piece = ArrayCall(piece[2].name)
    THEN [ok |-> TRUE, call |-> ParsedCall(piece[2].name, "array")]
    ELSE NotJson

NoMatch == [found |-> FALSE, piece |-> <<>>, lastIndex |-> 0]

\* the least element of a non-empty set of numbers
Least(S) == CHOOSE x \in S : \A y \in S : x <= y

\* jsonRegex.exec from position `from`:  /```json\s*({[\s\S]*?})\s*```/g
\* (the closing ``` also matches the first characters of a further ```json)
JsonBlockExec(text, from) ==
    LET Ends(b) == {e \in (b + 2)..(Len(text) - 1) :
                        /\ text[e].t = "rb"
                        /\ text[e + 1].t \in {"close", "fence"}}
        Starts == {b \in from..(Len(text) - 1) :
                        /\ text[b].t = "fence"
                        /\ text[b + 1].t = "lb"
                        /\ Ends(b) # {}}
    IN  IF Starts = {} THEN NoMatch
        ELSE LET b == Least(Starts)
                 e == Least(Ends(b))
             IN  [found |-> TRUE, piece |-> SubSeq(text, b + 1, e),
                  lastIndex |-> e + 2]

\* directJsonRegex.exec from position `from`:
\*   /{\s*"tool"\s*:[\s\S]*?"parameters"\s*:[\s\S]*?}/g
\* the match ends at the first } that follows "parameters":
DirectJsonExec(text, from) ==
    LET Keys(b) == {q \in (b + 2)..Len(text) : text[q].t = "params"}
        Ends(q) == {e \in (q + 1)..Len(text) : text[e].t = "rb"}
        Starts == {b \in from..(Len(text) - 1) :
                        /\ text[b].t = "lb"
                        /\ text[b + 1].t = "tool"
                        /\ \E q \in Keys(b) : Ends(q) # {}}
    IN  IF Starts = {} THEN NoMatch
        ELSE LET b == Least(Starts)
                 q == Least({k \in Keys(b) : Ends(k) # {}})
                 e == Least(Ends(q))
             IN  [found |-> TRUE, piece |-> SubSeq(text, b, e),
                  lastIndex |-> e + 1]

\* while ((match = jsonRegex.exec(text)) !== null) { ...push... }
RECURSIVE JsonBlockCalls(_, _)
JsonBlockCalls(text, from) ==
    LET match == JsonBlockExec(text, from)
    IN  IF ~match.found THEN <<>>
        ELSE (IF JsonToolObject(match.piece).ok
              THEN <<JsonToolObject(match.piece).call>> ELSE <<>>)
             \o JsonBlockCalls(text, match.lastIndex)

\* while ((directMatch = directJsonRegex.exec(text)) !== null) { ...push... }
RECURSIVE DirectJsonCalls(_, _)
DirectJsonCalls(text, from) ==
    LET match == DirectJsonExec(text, from)
    IN  IF ~match.found THEN <<>>
        ELSE (IF JsonToolObject(match.piece).ok
              THEN <<JsonToolObject(match.piece).call>> ELSE <<>>)
             \o DirectJsonCalls(text, match.lastIndex)

\* the calls of the code blocks, then those of the direct objects (the
\* tool_code form of the third loop does not occur in these texts)
parseTextForToolCalls(text) ==
    JsonBlockCalls(text, 1) \o DirectJsonCalls(text, 1)

(***************************************************************************)
(* The native Gemini session  (src/src/agent.ts:1675-2200)                 *)
(***************************************************************************)
\* what the model answers: structured function calls and a text
Response(calls, text) == [calls |-> calls, text |-> text]

Texts ==
    { <<>>, Prose,
      Prose \o Fenced(ObjectCall("buy")),
      Prose \o ObjectCall("buy") \o Prose,
      Fenced(ArrayCall("get_portfolio")),
      ArrayCall("get_portfolio"),
      Fenced(EmptyObjectCall("think")),
      Fenced(ObjectCall("buy")) \o Prose \o Fenced(ObjectCall("sell")),
      Fenced(ObjectCall("get_stock_price")) \o ObjectCall("sell") }

FunctionCallLists == { <<>>, <<"buy">>, <<"get_stock_price", "sell">> }

Responses == {Response(c, x) : c \in FunctionCallLists, x \in Texts}

\* the k-th tool call of the round-th answer of the model
IssuedCall(round, k, name) == [round |-> round, k |-> k, name |-> name]
CallsOf(round, names) == {IssuedCall(round, k, names[k]) : k \in 1..Len(names)}
NamesOf(parsed) == [k \in 1..Len(parsed) |-> parsed[k].name]

NoParse == [text |-> <<>>, calls |-> <<>>, ran |-> FALSE]

NativeIdle ==
    /\ gPc = "idle"
    /\ gPath = "none"
    /\ gIssued = {}
    /\ gDispatched = {}
    /\ gAnswered = {}
    /\ gParse = NoParse

\* which calls of the follow-up answer are executed: those parsed from its
\* text on the text path; response.functionCalls() is not read again
FollowUpDispatches(path) == path = "text"

\* const result = await chat.sendMessage(currentPrompt, { tools }) resolves:
\* the function calls, or else the calls parsed from the text, are executed
\* and their results are sent with a second chat.sendMessage
GeminiResponds(resp) ==
    /\ gPc = "start"
    /\ IF resp.calls # <<>>
       THEN /\ gPath' = "calls"
            /\ gIssued' = CallsOf(1, resp.calls)
            /\ gDispatched' = CallsOf(1, resp.calls)
            /\ gPc' = "followUp"
            /\ UNCHANGED gParse
       ELSE IF resp.text # <<>>
       THEN LET parsed == parseTextForToolCalls(resp.text)
            IN  /\ gParse' = [text |-> resp.text, calls |-> parsed, ran |-> TRUE]
                /\ gIssued' = CallsOf(1, NamesOf(parsed))
                /\ gDispatched' = CallsOf(1, NamesOf(parsed))
                /\ gPath' = IF parsed # <<>> THEN "text" ELSE "plain"
                /\ gPc' = IF parsed # <<>> THEN "followUp" ELSE "done"
       ELSE /\ gPath' = "plain"
            /\ gPc' = "done"
            /\ UNCHANGED <<gIssued, gDispatched, gParse>>
    /\ UNCHANGED gAnswered
    /\ UNCHANGED <<retryVars, threadVars, dispatchVars, reportVars, clockVars,
                   procVars, runVars, profileVars>>

\* the second chat.sendMessage resolves: the results have reached the model;
\* its answer's text is the final text, parsed once more on the text path,
\* and the session saves the thread
GeminiFollowsUp(resp) ==
    /\ gPc = "followUp"
    /\ gAnswered' = gDispatched
    /\ LET parsed == IF gPath = "text" /\ resp.text # <<>>
                     THEN parseTextForToolCalls(resp.text) ELSE <<>>
           further == CallsOf(2, resp.calls) \cup CallsOf(3, NamesOf(parsed))
       IN  /\ gParse' = IF gPath = "text" /\ resp.text # <<>>
                        THEN [text |-> resp.text, calls |-> parsed, ran |-> TRUE]
                        ELSE gParse
           /\ gIssued' = gIssued \cup further
           /\ gDispatched' = gDispatched \cup
                 (IF FollowUpDispatches(gPath) THEN CallsOf(3, NamesOf(parsed))
                  ELSE {})
    /\ gPc' = "done"
    /\ UNCHANGED gPath
    /\ UNCHANGED <<retryVars, threadVars, dispatchVars, reportVars, clockVars,
                   procVars, runVars, profileVars>>

\* chat.sendMessage rejects: catch (error) saves the fallback thread and the
\* session completes
GeminiChatFails ==
    /\ gPc \in {"start", "followUp"}
    /\ gPc' = "done"
    /\ gPath' = "failed"
    /\ UNCHANGED <<gIssued, gDispatched, gAnswered, gParse>>
    /\ UNCHANGED <<retryVars, threadVars, dispatchVars, reportVars, clockVars,
                   procVars, runVars, profileVars>>

\* the scheduler's next iteration starts a session
GeminiSessionStarts ==
    /\ gPc \in {"idle", "done"}
    /\ gPc' = "start"
    /\ gPath' = "none"
    /\ gIssued' = {}
    /\ gDispatched' = {}
    /\ gAnswered' = {}
    /\ gParse' = NoParse
    /\ UNCHANGED <<retryVars, threadVars, dispatchVars, reportVars, clockVars,
                   procVars, runVars, profileVars>>

(***************************************************************************)
(* Specifications                                                          *)
(***************************************************************************)
InitRetry == RetryIdle /\ ThreadIdle /\ DispatchIdle /\ ReportIdle /\ ClockIdle /\ ProcIdle /\ RunIdle /\ ProfileIdle /\ NativeIdle

NextRetry ==
    \/ \E r \in 1..MaxAttempts, d \in Delays : WithRetryCall(r, d)
    \/ \E value \in Values : WithRetryInvokeOk(value)
    \/ \E error \in Errors, jitter \in Jitters : WithRetryInvokeFail(error, jitter)
    \/ WithRetryExhausted

SpecRetry == InitRetry /\ [][NextRetry]_vars

NextErrorHandler ==
    \/ \E m \in 0..MaxAttempts, d \in EhDelays : EhWithRetryCall(m, d)
    \/ \E value \in Values : EhOperationOk(value)
    \/ \E error \in Errors : EhOperationFail(error)
    \/ EhNeverReached

SpecErrorHandler == InitRetry /\ [][NextErrorHandler]_vars

InitThread ==
    /\ RetryIdle
    /\ RunIdle /\ ProfileIdle /\ NativeIdle
    /\ ProcIdle
    /\ ClockIdle
    /\ ReportIdle
    /\ DispatchIdle
    /\ tPc = "idle"
    /\ threadFile \in InitialFiles
    /\ fileByProgram = FALSE
    /\ quarantine = {}
    /\ thread = <<>>
    /\ now = 0
    /\ nextSeq = LoadCeiling + 2
    /\ sessions = 0
    /\ loadLog = NoLoad
    /\ saveLog = NoSave

NextThread ==
    \/ \E writeOk \in BOOLEAN : LoadThread(writeOk)
    \/ \E k \in ToolCallCounts : RunConversation(k)
    \/ ConversationFails
    \/ \E writeOk \in BOOLEAN : SaveThread(writeOk)
    \/ SessionOver

SpecThread == InitThread /\ [][NextThread]_vars

NextLegacySession ==
    \/ \E writeOk \in BOOLEAN : LegacyLoadThread(writeOk)
    \/ \E k \in ToolCallCounts : RunConversation(k)
    \/ \E mismatch \in BOOLEAN, backupOk \in BOOLEAN, clearOk \in BOOLEAN :
            LegacySessionFails(mismatch, backupOk, clearOk)
    \/ \E k \in {0, 2}, writeOk \in BOOLEAN : LegacyRecovers(k, writeOk)
    \/ \E writeOk \in BOOLEAN : SaveThread(writeOk)
    \/ SessionOver

SpecLegacySession == InitThread /\ [][NextLegacySession]_vars

InitDispatch ==
    /\ RetryIdle
    /\ RunIdle /\ ProfileIdle /\ NativeIdle
    /\ ProcIdle
    /\ ClockIdle
    /\ ReportIdle
    /\ ThreadIdle
    /\ account \in {[buying_power |-> bp, portfolio_value |-> bp] :
                        bp \in BuyingPowers}
    /\ positions \in {[t \in TradeTickers |-> IF t = "AAPL" THEN q ELSE 0] :
                        q \in PositionQtys}
    /\ dispatchLog = NoDispatch
    /\ priceLog = NoPrice

NextDispatch ==
    \/ \E call \in StructuredCalls, env \in Envs : DispatchTool(call, env)
    \/ \E call \in TextCalls, env \in Envs : DispatchText(call, env)
    \/ \E name \in {"buy", "sell"}, ticker \in TradeTickers \cup {"aapl"},
          shares \in ShareCounts, env \in ServiceEnvs :
            ServiceTrade(name, ticker, shares, env)
    \/ \E bp \in BuyingPowers, qty \in PositionQtys : BrokerageUpdate(bp, qty)

SpecDispatch == InitDispatch /\ [][NextDispatch]_vars

InitShort ==
    /\ RetryIdle /\ ThreadIdle /\ ReportIdle /\ ClockIdle /\ ProcIdle
    /\ RunIdle /\ ProfileIdle /\ NativeIdle
    /\ account \in {[buying_power |-> bp, portfolio_value |-> eq] :
                        bp \in BuyingPowers, eq \in Equities}
    /\ positions \in {[t \in TradeTickers |-> IF t = "AAPL" THEN q ELSE 0] :
                        q \in PositionQtys}
    /\ dispatchLog = NoDispatch
    /\ priceLog = NoPrice

NextShort ==
    \/ \E call \in ShortToolCalls, env \in Envs : DispatchShortTool(call, env)
    \/ \E call \in ShortNativeCalls, env \in Envs : DispatchNative(call, env)
    \/ \E call \in ShortTextCalls, env \in Envs : DispatchText(call, env)
    \/ \E bp \in BuyingPowers, qty \in PositionQtys : BrokerageUpdate(bp, qty)
    \/ \E equity \in Equities : EquityUpdate(equity)

SpecShort == InitShort /\ [][NextShort]_vars

InitPrice == RetryIdle /\ ThreadIdle /\ DispatchIdle /\ ReportIdle /\ ClockIdle /\ ProcIdle /\ RunIdle /\ ProfileIdle /\ NativeIdle

NextPrice ==
    \/ \E ticker \in PriceTickers, quote \in Quotes :
            AgentGetStockPrice(ticker, quote)
    \/ \E ticker \in PriceTickers, quote \in Quotes, yahoo \in YahooAnswers,
          rnd \in RandomSamples :
            ServiceGetStockPrice(ticker, quote, yahoo, rnd)
    \/ \E ticker \in PriceTickers, quote \in Quotes, yahoo \in YahooAnswers :
            LegacyGetStockPrice(ticker, quote, yahoo)

SpecPrice == InitPrice /\ [][NextPrice]_vars

InitReport == RetryIdle /\ ThreadIdle /\ DispatchIdle /\ ReportIdle /\ ClockIdle /\ ProcIdle /\ RunIdle /\ ProfileIdle /\ NativeIdle

NextReport ==
    \/ \E acct \in AccountAnswers, pos \in PositionAnswers, ords \in OrderAnswers :
            GetPortfolio(acct, pos, ords)
    \/ \E acct \in AccountAnswers, acct2 \in AccountAnswers,
          pos \in PositionAnswers, ords \in OrderAnswers, quotes \in QuoteBooks :
            CalculateNetWorth(acct, acct2, pos, ords, quotes)
    \/ \E acct \in AccountAnswers, pos \in PositionAnswers, ords \in OrderAnswers :
            GenerateCSVReport(acct, pos, ords)
    \/ \E acct \in AccountAnswers, pos \in PositionAnswers, ords \in OrderAnswers :
            UpdateReadme(acct, pos, ords)

SpecReport == InitReport /\ [][NextReport]_vars

InitClock ==
    /\ RetryIdle /\ ThreadIdle /\ DispatchIdle /\ ReportIdle /\ ProcIdle
    /\ RunIdle /\ ProfileIdle /\ NativeIdle /\ ClockInit

NextClock == IsMarketOpenCall \/ GetNextMarketOpenCall

SpecClock == InitClock /\ [][NextClock]_vars

InitProcess ==
    /\ RetryIdle /\ ThreadIdle /\ DispatchIdle /\ ReportIdle /\ ClockIdle
    /\ RunIdle /\ ProfileIdle /\ NativeIdle
    /\ pPc = "start"
    /\ mode \in {"continuous", "single"}
    /\ creds \in CredentialCases
    /\ runZone \in Zones
    /\ clock \in StartInstants(runZone)
    /\ wakeAt = clock
    /\ phase = "none"
    /\ validations = 0
    /\ ever = Nothing
    /\ startLog = NoStart
    /\ sleepLog = NoSleep
    /\ exitLog = NoExit
    /\ retryPending = FALSE
    /\ sessionsInProgress = 0

ProcessStep ==
    \/ ValidateAllCredentials
    \/ Main
    \/ LoopCheck
    \/ Wake
    \/ SessionLoad
    \/ OrderDispatched
    \/ OrderCompleted
    \/ SessionPersist
    \/ SessionCompletes
    \/ SessionFails

NextProcess == ProcessStep \/ Sigint

SpecProcess == InitProcess /\ [][NextProcess]_vars

\* the event loop keeps running the process; a signal may or may not come
SpecProcessFair == SpecProcess /\ WF_vars(ProcessStep)

InitRun ==
    /\ RetryIdle /\ ThreadIdle /\ DispatchIdle /\ ReportIdle /\ ClockIdle
    /\ ProcIdle /\ ProfileIdle /\ NativeIdle
    /\ runPc = "ready"
    /\ turns = 0
    /\ runIndex = 0
    /\ sessionTurns = 0

NextRun ==
    \/ RunStarts
    \/ ToolTurn
    \/ FinalTurn
    \/ TurnLimitExceeded
    \/ \E error \in Errors : ProviderError(error)

\* the model and the provider answer every call, and pending promises settle
SpecRun == InitRun /\ [][NextRun]_vars /\ WF_vars(NextRun)

InitProfile ==
    /\ RetryIdle /\ ThreadIdle /\ DispatchIdle /\ ReportIdle /\ ClockIdle
    /\ ProcIdle /\ RunIdle /\ NativeIdle
    /\ agentEnv \in [Agents -> AgentEnvs]
    /\ agentPc = [a \in Agents |-> "off"]
    /\ agentProfile = [a \in Agents |-> NoProfile]
    /\ fileAccess = {}

NextProfile ==
    \/ \E a \in Agents : AgentStarts(a)
    \/ \E a \in Agents : AgentLoadsThread(a)
    \/ \E a \in Agents : AgentSavesThread(a)

SpecProfile == InitProfile /\ [][NextProfile]_vars

InitNative ==
    /\ RetryIdle /\ ThreadIdle /\ DispatchIdle /\ ReportIdle /\ ClockIdle
    /\ ProcIdle /\ RunIdle /\ ProfileIdle /\ NativeIdle

NextNative ==
    \/ GeminiSessionStarts
    \/ \E resp \in Responses : GeminiResponds(resp)
    \/ \E resp \in Responses : GeminiFollowsUp(resp)
    \/ GeminiChatFails

SpecNative == InitNative /\ [][NextNative]_vars

(***************************************************************************)
(* Claims about withRetry                                                  *)
(***************************************************************************)
\* The errors the retry policy names retryable: status 429 or 5xx, the status
\* being the structured one, or the one read from "NNN status code" when the
\* error carries no structured status.
RetryableErrors ==
    { Err(429, PlainMessage), Err(500, PlainMessage), Err(599, NoMessage),
      Err(0, CodeMessage(503)) }

\* C4: an invocation's error is followed by a sleep and a further iteration
\* exactly when it is retryable (429 or 500..599, structured or recovered
\* from the message); any other error is the last invocation, is not slept
\* on, and is the very error withRetry throws.
C4_RetryClassification ==
    \A k \in 1..Len(attempts) :
        ~attempts[k].ok =>
            /\ attempts[k].slept <=> attempts[k].error \in RetryableErrors
            /\ attempts[k].error \notin RetryableErrors =>
                    /\ k = Len(attempts)
                    /\ wrPc = "thrown"
                    /\ thrown = attempts[k].error

C4_Witness ==
    /\ wrPc = "thrown"
    /\ Len(attempts) = 2
    /\ attempts[1].error = Err(0, CodeMessage(503))
    /\ attempts[1].slept
    /\ attempts[2].error = Err(404, CodeMessage(500))
    /\ ~attempts[2].slept

AllRetryableFailures ==
    \A k \in 1..Len(attempts) :
        ~attempts[k].ok /\ attempts[k].error \in RetryableErrors

\* C5: fn is invoked at most `retries` times; when every invocation failed
\* with a retryable status, withRetry ends by throwing the error of the last
\* invocation, after exactly `retries` invocations.
C5_BoundedAttempts ==
    /\ Len(attempts) <= retries
    /\ (wrPc = "thrown" /\ AllRetryableFailures) =>
            /\ Len(attempts) = retries
            /\ thrown = attempts[retries].error
    /\ (wrPc = "loop" /\ Len(attempts) = retries) => ENABLED WithRetryExhausted

C5_Witness ==
    /\ wrPc = "thrown"
    /\ retries = 3
    /\ Len(attempts) = 3
    /\ AllRetryableFailures
    /\ attempts[1].error # attempts[3].error
    /\ thrown = attempts[3].error

Err500 == Err(500, PlainMessage)

ThreeFailuresOf500 ==
    /\ retries >= 4
    /\ Len(attempts) >= 3
    /\ \A k \in 1..3 : ~attempts[k].ok /\ attempts[k].error = Err500

\* C6: with retries >= 4, three failures with status 500 followed by a
\* success make withRetry return the success value after exactly three failed
\* invocations, and the sleep before retry k (0-indexed) lasts at least
\* delay * 2^k.
C6_ThreeFailuresThenSuccess ==
    ThreeFailuresOf500 =>
        /\ \A k \in 1..3 :
              attempts[k].slept /\ attempts[k].wait >= delay * Pow2(k - 1)
        /\ wrPc # "thrown" \/ Len(attempts) > 3
        /\ (Len(attempts) >= 4 /\ attempts[4].ok) =>
              /\ wrPc = "returned"
              /\ returned = attempts[4].value
              /\ Len(attempts) = 4
              /\ Cardinality({k \in 1..4 : ~attempts[k].ok}) = 3

C6_Witness ==
    /\ ThreeFailuresOf500
    /\ delay = DefaultDelay
    /\ Len(attempts) = 4
    /\ attempts[4].ok
    /\ wrPc = "returned"
    /\ returned = "v2"


(***************************************************************************)
(* Claims about the thread store                                           *)
(***************************************************************************)
\* C7: saveThread writes exactly the last min(n, 40) items of the n-item
\* thread it is given, in their original order, so the thread file written by
\* the program never holds more than 40 items.
C7_SaveKeepsLast40 ==
    /\ saveLog.wrote =>
          LET given == saveLog.given
              n == Len(given)
              m == Min(n, 40)
          IN  /\ threadFile.kind = "json"
              /\ Len(threadFile.items) = m
              /\ \A j \in 1..m : threadFile.items[j] = given[n - m + j]
    /\ fileByProgram => Len(threadFile.items) <= 40

C7_Witness ==
    /\ saveLog.wrote
    /\ Len(saveLog.given) = 45
    /\ Len(threadFile.items) = 40
    /\ threadFile.items[1] = saveLog.given[6]

HasOrphanResult(t) == \E k \in 1..Len(t) : IsOrphanResult(t, t[k])

HasStaleCallId(t) == \E k \in 1..Len(t) : t[k].callId = StaleCallId

Loaded == loadLog.ts > 0 /\ loadLog.raw.kind = "json"

QuarantineCopyWritten ==
    /\ loadLog.quarantined
    /\ loadLog.wrote => [ts |-> loadLog.ts, data |-> loadLog.raw] \in quarantine

Ge(a, b) == ~a.nan /\ ~b.nan /\ a.v >= b.v

OrderSubmitted(out) == "createOrder" \in {out.calls[k] : k \in 1..Len(out.calls)}

\* the share count the dispatched call asks for
RequestedShares == JsOr(dispatchLog.args.quantity, dispatchLog.args.shares)

\* C1: whenever a buy is dispatched, createOrder is called only if the
\* buying power just fetched is at least shares * resolved price, and a lower
\* buying power is answered with the 'not enough buying power' string and no
\* order.
C1_BuyChecksBuyingPower ==
    (dispatchLog.path # "none" /\ dispatchLog.name = "buy") =>
        LET out == dispatchLog.out
            orderValue == Mul(RequestedShares, out.price)
        IN  /\ OrderSubmitted(out) => Ge(out.seen.buying_power, orderValue)
            /\ Lt(out.seen.buying_power, orderValue) =>
                    /\ out.text = "not_enough_buying_power"
                    /\ ~OrderSubmitted(out)

\* a buy parsed from text without a share count reaches createOrder although
\* nothing compared the buying power with an order value
C1_Witness ==
    /\ dispatchLog.path = "text"
    /\ dispatchLog.name = "buy"
    /\ RequestedShares.nan
    /\ dispatchLog.out.seen.buying_power = Num(10000)
    /\ dispatchLog.out.price = Num(20000)
    /\ OrderSubmitted(dispatchLog.out)

\* C2: whenever a sell is dispatched, createOrder is called only if the
\* positions just fetched hold the ticker with at least the requested shares;
\* an absent ticker or a smaller holding is answered with the 'not enough
\* shares' string reporting the held quantity (0 when absent) and no order.
C2_SellChecksHolding ==
    (dispatchLog.path # "none" /\ dispatchLog.name = "sell") =>
        LET out == dispatchLog.out
            held == out.seen.qty
        IN  /\ OrderSubmitted(out) =>
                    held.v # 0 /\ Ge(held, RequestedShares)
            /\ (~held.nan /\ (held.v = 0 \/ Lt(held, RequestedShares))) =>
                    /\ out.text = "not_enough_shares"
                    /\ out.reported = held
                    /\ ~OrderSubmitted(out)

\* a sell parsed from text without a share count reaches createOrder
C2_Witness ==
    /\ dispatchLog.path = "text"
    /\ dispatchLog.name = "sell"
    /\ RequestedShares.nan
    /\ dispatchLog.out.seen.qty = Num(5)
    /\ OrderSubmitted(dispatchLog.out)

\* C3: every dispatch of a tool call, whatever its name, its arguments and
\* the failures of the remote calls it makes, ends by returning a string.
C3_DispatchReturnsString ==
    dispatchLog.path # "none" => dispatchLog.out.kind = "string"

\* the structured get_stock_price tool ends with the exception of
\* getStockPrice when the quote cannot be fetched
C3_Witness ==
    /\ dispatchLog.path = "tool"
    /\ dispatchLog.name = "get_stock_price"
    /\ dispatchLog.out.kind = "throw"

(***************************************************************************)
(* Claims about price resolution  (SpecPrice)                              *)
(***************************************************************************)
PrimaryAvailable(quote) ==
    quote.kind = "quote" /\ quote.BidPrice # 0 /\ quote.AskPrice # 0

\* C9: getStockPrice returns a number whatever the primary quote and the
\* secondary source answer; it never raises.
C9_PriceNeverRaises ==
    priceLog.impl # "none" => priceLog.result.ok

\* the agent's getStockPrice raises when the brokerage quote is rejected
C9_Witness ==
    /\ priceLog.impl = "agent"
    /\ priceLog.quote = ThrowQuote
    /\ ~priceLog.result.ok

\* C10: the price chain is ordered: an available primary quote gives its
\* mid price and the secondary source is not consulted; a failed primary
\* gives the secondary's price; only when both fail a synthetic value is
\* returned, the table price of a known ticker or else a value in [50, 250],
\* logged as fallback.
C10_PriceChainOrdered ==
    priceLog.impl # "none" =>
        LET quote == priceLog.quote
            yahoo == priceLog.yahoo
            result == priceLog.result
            consulted == {result.calls[k] : k \in 1..Len(result.calls)}
            known == ToUpperCase(priceLog.ticker) \in MockPriceTickers
        IN  /\ PrimaryAvailable(quote) =>
                    /\ result.ok
                    /\ result.price = MidPrice(quote.BidPrice, quote.AskPrice)
                    /\ "yahoo" \notin consulted
            /\ (~PrimaryAvailable(quote) /\ YahooUsable(yahoo)) =>
                    /\ result.ok
                    /\ result.price = yahoo.price
            /\ (~PrimaryAvailable(quote) /\ ~YahooUsable(yahoo)) =>
                    /\ result.ok
                    /\ result.source = "fallback"
                    /\ IF known
                       THEN result.price = mockPrices[ToUpperCase(priceLog.ticker)]
                       ELSE result.price \in 5000..25000

\* the agent's getStockPrice raises instead of falling through the chain
C10_Witness ==
    /\ priceLog.impl = "agent"
    /\ ~PrimaryAvailable(priceLog.quote)
    /\ ~priceLog.result.ok
    /\ priceLog.result.calls = <<"getLatestQuote">>


(***************************************************************************)
(* Claims about the portfolio reconciler  (SpecReport)                     *)
(***************************************************************************)
AnyFetchFailed == ~reportLog.acct.ok \/ ~reportLog.pos.ok \/ ~reportLog.ords.ok

\* C11: getPortfolio returns; when one of the three fetches (account,
\* positions, order history) fails it returns exactly the empty portfolio,
\* with nothing of what the other fetches answered.
C11_PortfolioDegradesToEmpty ==
    (reportLog.op = "getPortfolio" /\ AnyFetchFailed) =>
        /\ reportLog.portfolio.cash = 0
        /\ DOMAIN reportLog.portfolio.holdings = {}
        /\ reportLog.portfolio.history = <<>>

C11_Witness ==
    /\ reportLog.op = "getPortfolio"
    /\ reportLog.acct = Account(200000, 2999994)
    /\ reportLog.pos = Positions(5, 0)
    /\ ~reportLog.ords.ok
    /\ reportLog.portfolio = EmptyPortfolio

\* C12: calculateNetWorth returns the brokerage's portfolio_value rounded to
\* cents whenever the account fetch succeeds; when it fails it returns cash
\* plus the sum over every ticker t of the holdings of holdings[t] * price(t).
C12_NetWorth ==
    reportLog.op = "calculateNetWorth" =>
        IF reportLog.acct.ok
        THEN reportLog.netWorth = RoundCents(reportLog.acct.portfolio_value)
        ELSE LET holdings == reportLog.portfolio.holdings
                 price(t) == getStockPrice(reportLog.quotes[t])
             IN  /\ \A t \in DOMAIN holdings : price(t).ok
                 /\ reportLog.netWorth =
                        reportLog.portfolio.cash
                        + SumOver(DOMAIN holdings,
                                  [t \in DOMAIN holdings |->
                                      holdings[t] * price(t).price])

\* a short position with every price available is left out of the sum
C12_Witness ==
    /\ reportLog.op = "calculateNetWorth"
    /\ ~reportLog.acct.ok
    /\ reportLog.portfolio.cash = 200000
    /\ DOMAIN reportLog.portfolio.holdings = {"AAPL", "ZZZZ"}
    /\ reportLog.portfolio.holdings["AAPL"] = -5
    /\ \A t \in TradeTickers : reportLog.quotes[t] = Quote(19999, 20001)
    /\ reportLog.netWorth = 200000 + 3 * 20000


(***************************************************************************)
(* Claims about the market clock  (SpecClock)                              *)
(***************************************************************************)
\* the exchange's wall clock at instant t
ExchangeLocal(t, zone) == t - zone.etOffset
IsWeekend(t, zone) == GetDay(ExchangeLocal(t, zone)) \in {0, 6}
ExchangeTime(t, zone) == ExchangeLocal(t, zone) % Day

IsOpening(u, zone) == ~IsWeekend(u, zone) /\ ExchangeTime(u, zone) = 570

\* C14: getNextMarketOpen(now) is the earliest instant after now at which the
\* market opens: a 09:30 exchange-local time on a weekday, at which
\* isMarketOpen holds, with no market opening between now and it.
C14_NextOpenIsEarliest ==
    clockLog.op = "getNextMarketOpen" =>
        LET t == clockLog.t
            zone == [clockLog.zone EXCEPT !.testing = FALSE]
            r == clockLog.nextOpen
        IN  /\ r > t
            /\ IsOpening(r, zone)
            /\ isMarketOpen(r, zone)
            /\ \A u \in (t + 1)..(r - 1) : ~IsOpening(u, zone)

\* a weekday, 08:00 at the exchange in summer: the answer is the next day's
\* 09:30 and that day's opening lies before it
C14_Witness ==
    /\ clockLog.op = "getNextMarketOpen"
    /\ clockLog.zone.etOffset = 240
    /\ GetDay(ExchangeLocal(clockLog.t, clockLog.zone)) = 1
    /\ ExchangeTime(clockLog.t, clockLog.zone) = 480
    /\ clockLog.nextOpen = clockLog.t + 90 + Day


(***************************************************************************)
(* Claims about the process  (SpecProcess, SpecProcessFair)                *)
(***************************************************************************)
\* C15: in continuous mode a session is started only at an instant at which
\* isMarketOpen is true; a pass of the loop that finds the market closed
\* starts no session and sleeps until getNextMarketOpen, and the loop checks
\* again only when that sleep has ended.
C15_SessionsOnlyWhenOpen ==
    mode = "continuous" =>
        /\ pPc = "session" =>
                /\ clock = startLog.t
                /\ startLog.open
                /\ isMarketOpen(startLog.t, runZone)
        /\ (pPc = "sleeping" /\ sleepLog.reason = "closed") =>
                /\ ~isMarketOpen(sleepLog.at, runZone)
                /\ phase = "none"
                /\ wakeAt = Norm(getNextMarketOpen(sleepLog.at, runZone))
        /\ (pPc = "loop" /\ sleepLog.reason # "none") => clock = wakeAt

\* a session started on a Tuesday at 09:30 exchange time, the instant the
\* sleep ended
C15_Witness ==
    /\ mode = "continuous"
    /\ ~runZone.testing
    /\ pPc = "session"
    /\ phase = "loading"
    /\ startLog.t = wakeAt
    /\ GetDay(ExchangeLocal(startLog.t, runZone)) = 2
    /\ ExchangeTime(startLog.t, runZone) = 570

\* C16: in continuous mode a failed session does not end the loop: a further
\* session is eventually started (unless a shutdown signal ends the process).
C16_FailureThenFurtherSession ==
    [](retryPending => <>(~retryPending \/ pPc = "exited"))

\* winter: after a failed session the loop found the market closed and sleeps
\* until 13:30 UTC, 08:30 at the exchange
C16_Witness ==
    /\ mode = "continuous"
    /\ retryPending
    /\ ~runZone.testing
    /\ runZone.etOffset = 300
    /\ pPc = "sleeping"
    /\ sleepLog.reason = "closed"
    /\ ExchangeTime(wakeAt, runZone) = 510

AnyProviderFailed ==
    ~creds.openaiOk \/ (creds.isGemini /\ ~creds.geminiOk) \/ ~creds.alpacaOk

C19_SignalWaitsForSession ==
    (pPc = "exited" /\ exitLog.by = "SIGINT") => exitLog.phase = "none"

\* the handler calls process.exit(0) while createOrder is in flight
C19_Witness ==
    /\ pPc = "exited"
    /\ exitLog = [code |-> 0, by |-> "SIGINT", phase |-> "order"]


\* the market clock of the spec at instant u, told from the exchange's wall
\* clock (every instant counts as open under the test override)
OpenAt(u, zone) ==
    \/ zone.testing
    \/ /\ ~IsWeekend(u, zone)
       /\ ExchangeTime(u, zone) >= 570
       /\ ExchangeTime(u, zone) < 960

\* the loop is asleep after a session that completed
SleepsAfterSuccess ==
    /\ mode = "continuous"
    /\ pPc = "sleeping"
    /\ ~retryPending
    /\ sleepLog.reason \in {"interval", "reopen"}

\* C29: after a session completed in continuous mode the loop sleeps the
\* configured interval if the market is still open at now + interval, and
\* otherwise sleeps until the next market open; it never sleeps the plain
\* interval into an instant at which the market is closed.
C29_IntervalOnlyIfStillOpen ==
    SleepsAfterSuccess =>
        LET u == sleepLog.at + intervalMinutes
        IN  /\ (sleepLog.reason = "interval") <=> OpenAt(u, runZone)
            /\ sleepLog.reason = "interval" =>
                    (wakeAt = Norm(u) /\ OpenAt(wakeAt, runZone))

\* a session ends at 15:45 of an exchange weekday: the market is open, the
\* loop sleeps the interval and wakes at 16:15
C29_Witness ==
    /\ SleepsAfterSuccess
    /\ ~runZone.testing
    /\ sleepLog.reason = "interval"
    /\ ~IsWeekend(sleepLog.at, runZone)
    /\ ExchangeTime(sleepLog.at, runZone) = 945
    /\ ExchangeTime(wakeAt, runZone) = 975

\* C30: within one process at most one trading session is in progress at
\* any time; the loop checks the clock, sleeps and starts a session only
\* when no session is in progress, i.e. after the previous one completed or
\* failed.
C30_OneSessionAtATime ==
    /\ sessionsInProgress \in {0, 1}
    /\ pPc \in {"loop", "sleeping"} => sessionsInProgress = 0
    /\ (pPc = "session" /\ phase = "loading") => sessionsInProgress = 1

\* a further session of the loop has started after an earlier one settled
C30_Witness ==
    /\ mode = "continuous"
    /\ pPc = "session"
    /\ phase = "loading"
    /\ ever.conversed
    /\ sessionsInProgress = 1


(***************************************************************************)
(* Claims about the conversation  (SpecRun)                                *)
(***************************************************************************)
SessionEnded == runPc \in {"completed", "failed"}

C20_DistinctProfilesDisjointFiles ==
    \A x \in fileAccess : \A y \in fileAccess :
        agentEnv[x.agent] # agentEnv[y.agent] => x.path # y.path

\* PROFILE_NAME=gpt5 / MODEL=gpt-5 and PROFILE_NAME=gpt5mini / MODEL=gpt-5-mini
\* have both written results/default/thread-default.json
C20_Witness ==
    /\ agentEnv[1] = AgentEnv(gpt5Name, "gpt5")
    /\ agentEnv[2] = AgentEnv(gpt5MiniName, "gpt5mini")
    /\ \E x \in fileAccess : \E y \in fileAccess :
        /\ x.agent = 1 /\ y.agent = 2
        /\ x.op = "write" /\ y.op = "write"
        /\ x.path = y.path


(***************************************************************************)
(* Claims about unknown tool names  (SpecDispatch)                         *)
(***************************************************************************)
\* C21: executeToolCall with a name outside the nine known names returns the
\* string 'Unknown function: <name>', makes no remote call, and does not raise.
C21_UnknownFunctionLabeled ==
    (dispatchLog.path = "text" /\ dispatchLog.name \notin ToolNames) =>
        /\ dispatchLog.out.kind = "string"
        /\ dispatchLog.out.text = "Unknown function: " \o dispatchLog.name
        /\ dispatchLog.out.calls = <<>>
        /\ dispatchLog.out.order = NoOrder

\* an unknown name was dispatched with null arguments
C21_Witness ==
    /\ dispatchLog.path = "text"
    /\ dispatchLog.name = "buy_stock"
    /\ dispatchLog.args = NullArgs
    /\ dispatchLog.out.text = "Unknown function: buy_stock"


(***************************************************************************)
(* Claims about the portfolio's content  (SpecReport)                      *)
(***************************************************************************)
AllFetched == reportLog.acct.ok /\ reportLog.pos.ok /\ reportLog.ords.ok

FilledAt(orders) == {k \in 1..Len(orders) : orders[k].filled_at # 0}

\* C22: when all fetches succeed, holdings are exactly the positions with a
\* nonzero quantity, with their signed quantity, and history holds exactly the
\* filled orders, each as a trade with total = shares * price, in ascending
\* order of fill time whatever order the brokerage returned them in.
C22_PortfolioContent ==
    (reportLog.op = "getPortfolio" /\ AllFetched) =>
        LET qty == reportLog.pos.qty
            orders == reportLog.ords.orders
            holdings == reportLog.portfolio.holdings
            history == reportLog.portfolio.history
        IN  /\ DOMAIN holdings = {t \in TradeTickers : qty[t] # 0}
            /\ \A t \in DOMAIN holdings : holdings[t] = qty[t]
            /\ Len(history) = Cardinality(FilledAt(orders))
            /\ \A k \in FilledAt(orders) : \E j \in 1..Len(history) :
                /\ history[j].date = orders[k].filled_at
                /\ history[j].ticker = orders[k].symbol
                /\ history[j].type = orders[k].side
                /\ history[j].shares = orders[k].filled_qty
                /\ history[j].price = orders[k].filled_avg_price
                /\ history[j].total = orders[k].filled_qty * orders[k].filled_avg_price
            /\ \A j \in 1..Len(history) : \A k \in 1..Len(history) :
                j < k => history[j].date <= history[k].date

\* a short position, and four filled orders that the brokerage returned out
\* of order
C22_Witness ==
    /\ reportLog.op = "getPortfolio"
    /\ AllFetched
    /\ reportLog.pos.qty["AAPL"] < 0
    /\ Len(reportLog.portfolio.history) = 4
    /\ reportLog.ords.orders[1].filled_at > reportLog.ords.orders[3].filled_at


(***************************************************************************)
(* Claims about the report's P&L  (SpecReport)                             *)
(***************************************************************************)
InReport == reportLog.op \in {"generateCSVReport", "updateReadme"}

\* the buys of the sold ticker dated strictly before the sell
BuysBefore(sell) ==
    {k \in 1..Len(reportLog.portfolio.history) :
        /\ reportLog.portfolio.history[k].type = "buy"
        /\ reportLog.portfolio.history[k].ticker = sell.ticker
        /\ reportLog.portfolio.history[k].date < sell.date}

SharesOf(K) ==
    SumOver(K, [k \in K |-> reportLog.portfolio.history[k].shares])

CostOf(K) ==
    SumOver(K, [k \in K |-> reportLog.portfolio.history[k].total])

\* C23: every sell trade of the report carries the P&L
\* (sell.price - avgBuyPrice) * sell.shares, to the cent, with avgBuyPrice the
\* total cost over the total shares of the buys of the same ticker dated
\* strictly before the sell; without such a buy no P&L is reported.
C23_WeightedAveragePnl ==
    InReport =>
        \A r \in 1..Len(reportLog.rows) :
            LET row == reportLog.rows[r]
                K == BuysBefore(row.trade)
                exactTimesShares ==
                    (row.trade.price * SharesOf(K) - CostOf(K)) * row.trade.shares
                diff == row.pnl.pnl * SharesOf(K) - exactTimesShares
            IN  /\ row.pnl.reported <=> (row.trade.type = "sell" /\ K # {})
                /\ row.pnl.reported =>
                    /\ 2 * diff <= SharesOf(K)
                    /\ 2 * (0 - diff) <= SharesOf(K)

\* buys of 5 @ $100 and 5 @ $120 then a sell of 5 @ $130: P&L $100, the buy
\* at the sell's time and the later buy left out
C23_Witness ==
    /\ reportLog.op = "generateCSVReport"
    /\ Len(reportLog.rows) = 6
    /\ \E r \in 1..Len(reportLog.rows) :
        /\ reportLog.rows[r].trade.type = "sell"
        /\ reportLog.rows[r].trade.price = 13000
        /\ Cardinality(BuysBefore(reportLog.rows[r].trade)) = 2
        /\ reportLog.rows[r].pnl = [reported |-> TRUE, pnl |-> 10000]


(***************************************************************************)
(* Claims about short selling  (SpecShort)                                 *)
(***************************************************************************)
\* C24: whenever short_sell is dispatched, createOrder is called only if the
\* equity of the account just fetched is at least $40,000 and its buying power
\* at least half of shares * resolved price; otherwise the result is a string
\* and no order is submitted.
C24_ShortSellChecked ==
    dispatchLog.name = "short_sell" =>
        LET out == dispatchLog.out
            marginCovered ==
                Ge(Mul(Num(2), out.seen.buying_power),
                   Mul(dispatchLog.args.shares, out.price))
        IN  /\ out.kind = "string"
            /\ OrderSubmitted(out) =>
                (Ge(out.seen.equity, Num(4000000)) /\ marginCovered)
            /\ ~OrderSubmitted(out) => out.order = NoOrder

\* the native dispatcher submitted a short sale without a share count
C24_Witness ==
    /\ dispatchLog.path = "native"
    /\ dispatchLog.name = "short_sell"
    /\ dispatchLog.args.shares = NaN
    /\ OrderSubmitted(dispatchLog.out)
    /\ dispatchLog.out.order.side = "sell"

\* C25: whenever cover_short is dispatched, createOrder (a buy) is called only
\* if the positions just fetched hold a negative quantity of the ticker and the
\* requested shares do not exceed the short quantity; otherwise the result is
\* a string and no order is submitted.
C25_CoverShortChecked ==
    dispatchLog.name = "cover_short" =>
        LET out == dispatchLog.out
            qty == out.seen.qty
        IN  /\ out.kind = "string"
            /\ OrderSubmitted(out) =>
                /\ Lt(qty, Num(0))
                /\ Ge(Num(0 - qty.v), dispatchLog.args.shares)
                /\ out.order.side = "buy"
            /\ ~OrderSubmitted(out) => out.order = NoOrder

\* the native dispatcher submitted a cover without a share count
C25_Witness ==
    /\ dispatchLog.path = "native"
    /\ dispatchLog.name = "cover_short"
    /\ dispatchLog.args.shares = NaN
    /\ Lt(dispatchLog.out.seen.qty, Num(0))
    /\ OrderSubmitted(dispatchLog.out)


(***************************************************************************)
(* Claims about load-time checks  (SpecThread)                             *)
(***************************************************************************)
\* a function call fc_<n> without its reasoning item rs_<n>
LacksReasoning(items) ==
    \E k \in 1..Len(items) :
        /\ items[k].type = "function_call"
        /\ items[k].id.prefix = "fc"
        /\ ~\E j \in 1..Len(items) :
              /\ items[j].type = "reasoning"
              /\ items[j].id = ItemId("rs", items[k].id.n)

\* C26: loadThread on a thread holding a function call whose correlating
\* reasoning item is absent returns the empty thread and writes a quarantine
\* copy of the raw file.
C26_LoadQuarantinesUnreasonedCalls ==
    (Loaded /\ LacksReasoning(loadLog.raw.items)) =>
        /\ loadLog.result = <<>>
        /\ QuarantineCopyWritten

\* the thread with the lost reasoning item was returned as it is
C26_Witness ==
    /\ loadLog.raw = JsonFile(UnreasonedThread)
    /\ loadLog.result = UnreasonedThread
    /\ ~loadLog.quarantined
    /\ quarantine = {}


\* C27: loadThread on a thread of more than 50 items returns the empty thread
\* and copies the raw file to a timestamped quarantine file; a thread of
\* exactly 50 items that passes the other checks is returned unchanged.
C27_OversizeQuarantined ==
    Loaded =>
        LET raw == loadLog.raw.items
        IN  /\ Len(raw) > 50 => (loadLog.result = <<>> /\ QuarantineCopyWritten)
            /\ (Len(raw) = 50 /\ ~HasOrphanResult(raw) /\ ~HasStaleCallId(raw)) =>
                  loadLog.result = raw

\* a thread of 51 items was reset and no copy of it was written
C27_Witness ==
    /\ Loaded
    /\ Len(loadLog.raw.items) = 51
    /\ ~HasOrphanResult(loadLog.raw.items)
    /\ loadLog.result = <<>>
    /\ ~loadLog.quarantined
    /\ quarantine = {}

\* C28: once a load that detected corruption has returned, the primary thread
\* file no longer holds the corrupted content, and a second load without a
\* save in between writes no second quarantine copy of it.
C28_CorruptFileReplaced ==
    /\ (Loaded /\ loadLog.quarantined /\ tPc = "loaded") =>
            threadFile # loadLog.raw
    /\ \A a \in quarantine : \A b \in quarantine : a.data = b.data => a.ts = b.ts

\* the corrupted file is still in place after two loads, with two quarantine
\* copies of it
C28_Witness ==
    /\ tPc = "loaded"
    /\ loadLog.quarantined
    /\ threadFile = loadLog.raw
    /\ \E a \in quarantine : \E b \in quarantine :
        /\ a.data = threadFile
        /\ b.data = threadFile
        /\ a.ts # b.ts

(***************************************************************************)
(* Claims about trimming and about errors of the file system  (SpecThread) *)
(***************************************************************************)
\* the load that follows a successful save of a structurally valid thread
LoadedAfterSaveOfValid ==
    /\ tPc = "loaded"
    /\ saveLog.wrote
    /\ loadLog.raw = JsonFile(SliceLast(saveLog.given, 40))
    /\ ~HasOrphanResult(saveLog.given)
    /\ ~HasStaleCallId(saveLog.given)

\* C35: when saveThread has trimmed a structurally valid thread to its last
\* 40 items, the following loadThread returns exactly the saved items; the
\* window never separates a function result from its function call, so the
\* corruption reset is not triggered.
C35_TrimPreservesValidity ==
    LoadedAfterSaveOfValid =>
        /\ ~HasOrphanResult(loadLog.raw.items)
        /\ loadLog.result = loadLog.raw.items
        /\ ~loadLog.quarantined

\* a valid thread of more than 40 items was saved; the window starts at a
\* function result whose call was cut off, and the next load resets
C35_Witness ==
    /\ LoadedAfterSaveOfValid
    /\ Len(saveLog.given) > 40
    /\ loadLog.raw.items[1].type = "function_call_result"
    /\ loadLog.quarantined
    /\ loadLog.result = <<>>

\* C39: loadThread and saveThread never propagate an error.  A missing, an
\* unreadable or an unparsable file makes loadThread return the empty thread
\* and leaves the file untouched; a failed write in saveThread is swallowed,
\* the file stays as it was and the session completes.
C39_ThreadStoreSwallowsErrors ==
    /\ (tPc = "loaded" /\ loadLog.raw.kind \in {"absent", "unreadable", "garbage"}) =>
            /\ loadLog.result = <<>>
            /\ thread = <<>>
            /\ ~loadLog.quarantined
            /\ threadFile = loadLog.raw
    /\ ~saveLog.threw
    /\ (saveLog # NoSave /\ ~saveLog.wrote /\ thread = saveLog.given) =>
            /\ tPc = "idle"
            /\ threadFile = saveLog.before

\* an unparsable file was loaded as the empty thread, the conversation ran
\* and the write of saveThread failed: the session is over, the file as it was
C39_Witness ==
    /\ loadLog.raw = GarbageFile
    /\ loadLog.result = <<>>
    /\ saveLog # NoSave
    /\ ~saveLog.wrote
    /\ thread = saveLog.given
    /\ tPc = "idle"
    /\ threadFile = GarbageFile


\* C37: a session that ends in failure leaves the persisted thread file
\* exactly as it was when the session started (saveThread is reached only
\* after the conversation has returned).
C37_FailedSessionKeepsFile ==
    tPc = "failed" => threadFile = loadLog.raw

\* the session failed on a thread file that held a valid thread, and the
\* file now holds the empty thread
C37_Witness ==
    /\ tPc = "failed"
    /\ loadLog.raw = JsonFile(ValidThread(3))
    /\ loadLog.result = ValidThread(3)
    /\ threadFile = JsonFile(<<>>)


(***************************************************************************)
(* Claims about the conversation's retries  (SpecRun)                      *)
(***************************************************************************)
\* C32: the whole conversation is run at most once per session; a failure
\* during it is not retried inside the session (only an individual remote
\* call is), and re-running it is left to the scheduler's next iteration.
C32_ConversationRunOnce ==
    runPc \in {"running", "completed"} => runIndex = 0

\* run() was invoked again in the same session after an invocation that made
\* tool turns had failed
C32_Witness ==
    /\ runPc = "running"
    /\ runIndex = 1
    /\ sessionTurns > turns
    /\ sessionTurns >= 3


(***************************************************************************)
(* Claims about withRetry of the error handler  (SpecErrorHandler)         *)
(***************************************************************************)
\* C40: withRetry of the error handler retries on every kind of error.  When
\* the operation fails on every attempt it is invoked exactly maxRetries
\* times, handleError is called once per failed attempt, the wait before
\* attempt k+1 is delay * 2^(k-1), no wait follows the last attempt and the
\* error of the last attempt is re-thrown; on the first success its value is
\* returned and no further attempt is made.
C40_RetriesEveryError ==
    LET n == Len(attempts)
    IN  /\ n <= retries
        /\ \A k \in 1..n :
              /\ attempts[k].ok <=> (k = n /\ wrPc = "returned")
              /\ ~attempts[k].ok =>
                    /\ attempts[k].handled = 1
                    /\ attempts[k].slept <=> k < retries
                    /\ attempts[k].slept => attempts[k].wait = delay * (2 ^ (k - 1))
        /\ (wrPc = "thrown" /\ retries >= 1) =>
              /\ n = retries
              /\ thrown = attempts[n].error
        /\ wrPc = "returned" => (n >= 1 /\ returned = attempts[n].value)
        /\ wrPc = "loop" => i = n + 1

\* three failures with a status that is not transient, maxRetries = 3,
\* delay = 1000: waits of 1000 and 2000, none after the third, which is thrown
C40_Witness ==
    /\ wrPc = "thrown"
    /\ retries = DefaultMaxRetries
    /\ delay = EhDefaultDelay
    /\ Len(attempts) = 3
    /\ attempts[1].error = Err(404, CodeMessage(500))
    /\ attempts[1].wait = 1000
    /\ attempts[2].wait = 2000
    /\ ~attempts[3].slept
    /\ thrown = Err(0, PlainMessage)
    /\ attempts[3].error = thrown


(***************************************************************************)
(* Claims about the native session and its text parser  (SpecNative)       *)
(***************************************************************************)
\* how often x occurs in the sequence q
Occurrences(q, x) == Cardinality({k \in 1..Len(q) : q[k] = x})

\* the names of the tool objects a text embeds, one per "tool" member
EmbeddedTools(text) ==
    LET at == {k \in 1..Len(text) : text[k].t = "tool"}
    IN  {text[k].name : k \in at}

\* C36: parseTextForToolCalls yields each tool call embedded in the text
\* exactly once: one {"tool":..., "parameters":...} object, inside a code
\* block or not, gives one call, so a requested buy or sell is dispatched
\* once and never twice.
C36_EachEmbeddedCallOnce ==
    gParse.ran =>
        /\ \A name \in EmbeddedTools(gParse.text) :
              Occurrences(NamesOf(gParse.calls), name) =
                  Occurrences([k \in 1..Len(gParse.text) |-> gParse.text[k]],
                              ToolKey(name))
        /\ \A k \in 1..Len(gParse.calls) :
              gParse.calls[k].name \in EmbeddedTools(gParse.text)

\* the text holds one buy object outside a code block and no call is parsed
C36_Witness ==
    /\ gParse.ran
    /\ gParse.text = Prose \o ObjectCall("buy") \o Prose
    /\ gParse.calls = <<>>
    /\ gPc = "done"
    /\ gDispatched = {}

\* C31: the results of dispatched tool calls go back to the model and the
\* tool calls of its further answers are dispatched and answered in turn,
\* until an answer without tool calls; when the session is over no tool call
\* the model returned is left undispatched or unanswered.
C31_EveryCallDispatchedAndAnswered ==
    (gPc = "done" /\ gPath # "failed") =>
        /\ gIssued \subseteq gDispatched
        /\ gIssued \subseteq gAnswered

\* the answer to the first round's results carries a further function call,
\* and the session is over without having executed it
C31_Witness ==
    /\ gPc = "done"
    /\ gPath = "calls"
    /\ IssuedCall(1, 1, "buy") \in gAnswered
    /\ IssuedCall(2, 1, "buy") \in gIssued
    /\ IssuedCall(2, 1, "buy") \notin gDispatched


(***************************************************************************)
(* Claims about the price an order rests on  (SpecDispatch)                *)
(***************************************************************************)
\* C38: an order is submitted only against a price obtained from a real
\* source: in every trade dispatch in which neither the primary quote nor the
\* secondary market-data source yields a price, no order is submitted.
C38_OrdersRestOnRealPrices ==
    (dispatchLog.path # "none" /\ OrderSubmitted(dispatchLog.out)) =>
        dispatchLog.out.seen.source \in {"alpaca", "yahoo"}

\* the quote is rejected and so is the secondary request; the service buys
\* against the mock price of 224.50
C38_Witness ==
    /\ dispatchLog.path = "service"
    /\ dispatchLog.name = "buy"
    /\ dispatchLog.args.ticker = "AAPL"
    /\ dispatchLog.out.calls = <<"getAccount", "getLatestQuote", "yahoo", "createOrder">>
    /\ dispatchLog.out.seen.source = "fallback"
    /\ dispatchLog.out.price = Num(22450)
    /\ OrderSubmitted(dispatchLog.out)


(***************************************************************************)
(* Claims about the two dispatch paths  (SpecShort)                        *)
(***************************************************************************)
\* C34: dispatch does not depend on the provider: for every tool name, the
\* same arguments and the same brokerage state, executeToolCall (the path of
\* calls parsed from text) and the structured tool make the same remote
\* calls, give the same answer and submit the same order; short_sell and
\* cover_short are handled on both paths, not reported as unknown.
C34_PathsAgree ==
    dispatchLog.path = "tool" =>
        \A env \in Envs :
            LET structured == ToolExecute(dispatchLog.name, dispatchLog.args, env)
                parsed == executeToolCall(dispatchLog.name, dispatchLog.args, env)
            IN  /\ parsed.calls = structured.calls
                /\ parsed.text = structured.text
                /\ parsed.order = structured.order

\* short_sell parsed from text is answered as an unknown function
C34_Witness ==
    /\ dispatchLog.path = "text"
    /\ dispatchLog.name = "short_sell"
    /\ ~dispatchLog.args.isNull
    /\ ~dispatchLog.args.shares.nan
    /\ dispatchLog.out.text = "Unknown function: short_sell"
    /\ dispatchLog.out.calls = <<>>


(***************************************************************************)
(* Claims about retries of the remote calls  (SpecPrice)                   *)
(***************************************************************************)
\* how often the remote call `name` was made while the price was resolved
Invocations(name) ==
    Cardinality({k \in 1..Len(priceLog.result.calls) :
                    priceLog.result.calls[k] = name})

\* C33: every remote call runs under the retry policy, and each stage of the
\* price chain is retried on its own for a transient failure (the request is
\* rejected) but not for a not-found answer (the request is answered without
\* a price).
C33_StagesRetriedOnTransientFailure ==
    priceLog.impl # "none" =>
        /\ priceLog.quote.kind = "throw" => Invocations("getLatestQuote") >= 2
        /\ priceLog.quote.kind = "null" => Invocations("getLatestQuote") = 1
        /\ (Invocations("yahoo") >= 1 /\ priceLog.yahoo.kind = "throw") =>
                Invocations("yahoo") >= 2

\* the quote request is rejected; it is made once and the chain moves on to
\* the secondary source, whose price is returned
C33_Witness ==
    /\ priceLog.impl = "service"
    /\ priceLog.quote = ThrowQuote
    /\ priceLog.yahoo = Yahoo(19950)
    /\ priceLog.result.calls = <<"getLatestQuote", "yahoo">>
    /\ priceLog.result.source = "yahoo"


=============================================================================
